---- MODULE Spec2Model ----
(***************************************************************************)
(* A model of the metrics pipeline of ResearchAdblockingWebPerformance:    *)
(*   - the run averager (MetricsCollector.computeAverageMetrics),          *)
(*   - report generation (generateReport and the functions it calls).      *)
(*                                                                         *)
(* Numbers.  Every numeric quantity of a Metrics record is held as an      *)
(* integer number of hundredths: the JavaScript value 0.67 is 67, the      *)
(* value 3 is 300.  Number(x.toFixed(2)) then is a rounding to the nearest *)
(* integer.  The runs given to the averager are raw page-load measurements *)
(* (whole numbers of requests, bytes and milliseconds, as the capture      *)
(* layer counts them), so every mean of at most a handful of runs is away  *)
(* from a rounding tie and the floating-point quotient rounds as the exact *)
(* one does.                                                               *)
(***************************************************************************)
EXTENDS Integers, Sequences, FiniteSets, TLC

VARIABLES
    metricsArray,      \* the argument of computeAverageMetrics: a sequence of Metrics
    avgPc,             \* "idle" | "returned" | "threw": the outcome of the call
    averagedMetrics,   \* <<>> or <<m>>: the record the call returned
    reaveraged,        \* <<>> or <<m>>: computeAverageMetrics([averagedMetrics])
    inputFiles,        \* generateReport: the paths given on the command line
    disk,              \* path -> file content (a MetricsData or Unreadable)
    pc,                \* generateReport: the position of the run
    allData,           \* loadMetricsData: the MetricsData of the files read so far
    commonDomains,     \* the Set returned by findCommonDomains
    filterArgs,        \* per file processed: the arguments and the result of
                       \* filterDataByCommonDomains, and the ReportResult computed
    reportResultsMap,  \* generateReportResults: base name -> ReportResult
    built,             \* <<>> or <<map>>: what buildApp was given
    referenceData,     \* <<>> or the tables of trackers.json and companies.json
    statsData,         \* the MetricsData given to computeStatistics
    statsResult,       \* <<>> or <<r>>: the ReportResult computeStatistics returned
    detectedEnv,       \* <<>> or <<t>>: what determineTestEnvironment returned
    urlMain,           \* isThirdParty: the URL of the page
    urlRequest,        \* isThirdParty: the URL of the request
    thirdParty,        \* <<>> or <<b>>: isThirdParty(mainUrl, requestUrl)
    thirdPartySwapped, \* <<>> or <<b>>: isThirdParty(requestUrl, mainUrl)
    treemapType,       \* transformReportResultForTreemap: the visualization type
    treemapThreshold,  \* transformReportResultForTreemap: minWebsitesThreshold
    treemap,           \* <<>> or <<r>>: what transformReportResultForTreemap returned
    reportDir,         \* sync-reports: the report directory
    docsDir,           \* sync-reports: the docs directory
    syncPc,            \* sync-reports: the position of main()
    reportFiles,       \* sync-reports: the .html names listed in report
    syncPending,       \* sync-reports: the names the running loop has yet to visit
    indexLinks,        \* sync-reports: the names linked from the generated index.html
    pageUrl,           \* collectStats: options.url
    requests,          \* collectStats: the Map requestId -> RequestInfo
    collectPc,         \* collectStats: "idle" | "listening" | "returned"
    puppeteerResults,  \* <<>> or <<r>>: the PuppeteerResults collectStats returned
    initialFile,       \* storeMetrics: the output file before the first call
    metricsFile,       \* storeMetrics: the output file
    storeLog,          \* storeMetrics: (domain, metrics, threw) of the calls made
    domainsFile,       \* processDomainsPuppeteer: the domains file
    limit,             \* processDomainsPuppeteer: options.limit (Undefined if not given)
    browser,           \* PuppeteerRunner.browser: "none" | "open" | "closed"
    domPc,             \* processDomainsPuppeteer: the position of the call
    domainsToProcess,  \* the domains the loop has yet to visit
    attempted,         \* the domains processDomainPuppeteer was called with
    currentDomain,     \* processDomainPuppeteer: domain
    resolvedUrl,       \* processDomainPuppeteer: <<>> or <<url>>, from getUrlByDomain
    warmedUp,          \* processDomainPuppeteer: warmUp(url) has returned
    puppeteerResultsArray  \* processDomainPuppeteer: the results of the runs

avgVars == <<metricsArray, avgPc, averagedMetrics, reaveraged>>
reportVars == <<inputFiles, disk, pc, allData, commonDomains, filterArgs,
                reportResultsMap, built>>
statsVars == <<referenceData, statsData, statsResult, detectedEnv>>
vars == <<metricsArray, avgPc, averagedMetrics, reaveraged, inputFiles, disk,
          pc, allData, commonDomains, filterArgs, reportResultsMap, built,
          referenceData, statsData, statsResult, detectedEnv,
          urlMain, urlRequest, thirdParty, thirdPartySwapped,
          treemapType, treemapThreshold, treemap,
          reportDir, docsDir, syncPc, reportFiles, syncPending, indexLinks,
          pageUrl, requests, collectPc, puppeteerResults,
          initialFile, metricsFile, storeLog,
          domainsFile, limit, browser, domPc, domainsToProcess, attempted,
          currentDomain, resolvedUrl, warmedUp, puppeteerResultsArray>>

\* the variables of the operations modelled after the report pipeline
urlVars == <<urlMain, urlRequest, thirdParty, thirdPartySwapped>>
treeVars == <<treemapType, treemapThreshold, treemap>>
syncVars == <<reportDir, docsDir, syncPc, reportFiles, syncPending, indexLinks>>
collectVars == <<pageUrl, requests, collectPc, puppeteerResults>>
storeVars == <<initialFile, metricsFile, storeLog>>
domainsVars == <<domainsFile, limit, browser, domPc, domainsToProcess,
                 attempted, currentDomain, resolvedUrl, warmedUp,
                 puppeteerResultsArray>>
moreVars == <<collectVars, storeVars, domainsVars>>
laterVars == <<urlVars, treeVars, syncVars, moreVars>>

UrlIdle ==
    /\ urlMain = <<>>
    /\ urlRequest = <<>>
    /\ thirdParty = <<>>
    /\ thirdPartySwapped = <<>>

TreeIdle ==
    /\ treemapType = ""
    /\ treemapThreshold = 0
    /\ treemap = <<>>

SyncIdle ==
    /\ reportDir = <<>>
    /\ docsDir = <<>>
    /\ syncPc = "idle"
    /\ reportFiles = {}
    /\ syncPending = {}
    /\ indexLinks = {}

CollectIdle ==
    /\ pageUrl = <<>>
    /\ requests = <<>>
    /\ collectPc = "idle"
    /\ puppeteerResults = <<>>

StoreIdle ==
    /\ initialFile = <<>>
    /\ metricsFile = <<>>
    /\ storeLog = <<>>

DomainsIdle ==
    /\ domainsFile = <<>>
    /\ limit = -1
    /\ browser = "none"
    /\ domPc = "idle"
    /\ domainsToProcess = <<>>
    /\ attempted = <<>>
    /\ currentDomain = ""
    /\ resolvedUrl = <<>>
    /\ warmedUp = FALSE
    /\ puppeteerResultsArray = <<>>

MoreIdle == CollectIdle /\ StoreIdle /\ DomainsIdle

LaterIdle == UrlIdle /\ TreeIdle /\ SyncIdle /\ MoreIdle

-----------------------------------------------------------------------------
(* Bounds *)

\* the longest sequence of runs given to computeAverageMetrics
MaxRuns == 3

\* the largest number of input files given to generateReport
MaxFiles == 2

\* the largest number of domains of a MetricsData given to computeStatistics
MaxSites == 2

-----------------------------------------------------------------------------
(* Numbers and optional values *)

\* toFixed(2): two decimals, so one unit of the model is a hundredth
Scale == 100

\* `number | undefined`: the value of an optional field a run did not report
Undefined == -1

\* a whole number n as the model holds it
Num(n) == n * Scale

Abs(x) == IF x < 0 THEN -x ELSE x

RECURSIVE SeqSum(_)
SeqSum(s) == IF s = <<>> THEN 0 ELSE Head(s) + SeqSum(Tail(s))

\* `x || 0`
OrZero(x) == IF x = Undefined THEN 0 ELSE x

\* a mutant of NumberToFixed2: the value is scaled up for the rounding and
\* never scaled back
NumberToFixed2Unscaled(sum, n) == ((2 * sum + n) \div (2 * n)) * Scale

\* a mutant of NumberToFixed2: toFixed(1), the nearest tenth
NumberToFixed1(sum, n) == ((2 * sum + 10 * n) \div (20 * n)) * 10

\* Number((sum / n).toFixed(2)) for sum >= 0, n > 0: the nearest hundredth
NumberToFixed2(sum, n) == (2 * sum + n) \div (2 * n)

-----------------------------------------------------------------------------
(* The run averager: src/src/metrics-collector.ts *)

\* a mutant of calculateAverage: every run is in the denominator
calculateAverageAllRuns(values) ==
    IF Len(SelectSeq(values, LAMBDA v : v # Undefined)) = 0
    THEN 0
    ELSE NumberToFixed2(SeqSum([i \in 1..Len(values) |-> OrZero(values[i])]),
                        Len(values))

\* calculateAverage(metrics, selector), given the selected values in run order
calculateAverage(values) ==
    LET validMetrics == SelectSeq(values, LAMBDA v : v # Undefined)
    IN  IF Len(validMetrics) = 0
        THEN 0
        ELSE NumberToFixed2(
                 SeqSum([i \in 1..Len(validMetrics) |-> OrZero(validMetrics[i])]),
                 Len(validMetrics))

\* collectUniqueKeys(array, m => m.requests[field])
collectUniqueKeys(array, field) ==
    UNION { DOMAIN array[i].requests[field] : i \in 1..Len(array) }

\* valueSelector(metric, key) || 0
KeyValueOrZero(metric, field, key) ==
    IF key \in DOMAIN metric.requests[field]
    THEN OrZero(metric.requests[field][key])
    ELSE 0

\* the number of runs whose map has the key
RunsWithKey(array, field, key) ==
    Cardinality({ i \in 1..Len(array) : key \in DOMAIN array[i].requests[field] })

\* a mutant of KeyAverage: only the runs that have the key are in the denominator
KeyAverageOverPresentRuns(array, field, key) ==
    NumberToFixed2(
        SeqSum([i \in 1..Len(array) |-> KeyValueOrZero(array[i], field, key)]),
        RunsWithKey(array, field, key))

\* computeAveragesForKeys: the `average` of one key
KeyAverage(array, field, key) ==
    NumberToFixed2(
        SeqSum([i \in 1..Len(array) |-> KeyValueOrZero(array[i], field, key)]),
        Len(array))

\* a mutant of KeepsAverage: a zero average is kept
KeepsAverageOrZero(average) == average >= 0

\* computeAveragesForKeys: `if (average > 0)`
KeepsAverage(average) == average > 0

\* computeAveragesForKeys(metricsArray, keys, (m, key) => m.requests[field][key])
computeAveragesForKeys(array, keys, field) ==
    [ key \in { k \in keys : KeepsAverage(KeyAverage(array, field, k)) }
        |-> KeyAverage(array, field, key) ]

computeHostnameAverages(array) ==
    computeAveragesForKeys(array, collectUniqueKeys(array, "hostnames"), "hostnames")

computeEtldPlusOneAverages(array) ==
    computeAveragesForKeys(array, collectUniqueKeys(array, "etldPlus1s"), "etldPlus1s")

\* the values a selector picks, in run order
Selected(array, field) == [i \in 1..Len(array) |-> array[i][field]]
SelectedIn(array, group, field) == [i \in 1..Len(array) |-> array[i][group][field]]

\* the object literal computeAverageMetrics returns for a non-empty array
AverageRecord(array) ==
    [ url |-> array[1].url,
      domain |-> array[1].domain,
      measureTime |-> array[1].measureTime,
      testEnv |-> array[1].testEnv,
      method |-> array[1].method,
      domContentLoadTimeMs |-> calculateAverage(Selected(array, "domContentLoadTimeMs")),
      loadTimeMs |-> calculateAverage(Selected(array, "loadTimeMs")),
      weight |->
        [ totalBytes |-> calculateAverage(SelectedIn(array, "weight", "totalBytes")),
          thirdPartyBytes |->
              calculateAverage(SelectedIn(array, "weight", "thirdPartyBytes")) ],
      requests |->
        [ totalRequests |->
              calculateAverage(SelectedIn(array, "requests", "totalRequests")),
          blockedRequests |->
              calculateAverage(SelectedIn(array, "requests", "blockedRequests")),
          notBlockedRequests |->
              calculateAverage(SelectedIn(array, "requests", "notBlockedRequests")),
          thirdPartyRequests |->
              calculateAverage(SelectedIn(array, "requests", "thirdPartyRequests")),
          thirdPartyBlockedRequests |->
              calculateAverage(SelectedIn(array, "requests", "thirdPartyBlockedRequests")),
          thirdPartyNotBlockedRequests |->
              calculateAverage(SelectedIn(array, "requests", "thirdPartyNotBlockedRequests")),
          hostnames |-> computeHostnameAverages(array),
          etldPlus1s |-> computeEtldPlusOneAverages(array) ] ]

\* a mutant of computeAverageMetrics: no guard, an empty array gives a
\* zero-filled record
computeAverageMetricsUnguarded(array) ==
    IF Len(array) = 0
    THEN [ threw |-> FALSE,
           value |-> << [ url |-> "", domain |-> "", measureTime |-> "",
                          testEnv |-> "none", method |-> "",
                          domContentLoadTimeMs |-> 0, loadTimeMs |-> 0,
                          weight |-> [ totalBytes |-> 0, thirdPartyBytes |-> 0 ],
                          requests |->
                            [ totalRequests |-> 0, blockedRequests |-> 0,
                              notBlockedRequests |-> 0, thirdPartyRequests |-> 0,
                              thirdPartyBlockedRequests |-> 0,
                              thirdPartyNotBlockedRequests |-> 0,
                              hostnames |-> <<>>, etldPlus1s |-> <<>> ] ] >> ]
    ELSE [ threw |-> FALSE, value |-> << AverageRecord(array) >> ]

\* computeAverageMetrics(metricsArray): throws on an empty array, else returns
\* the averaged record (value is <<>> or <<record>>)
computeAverageMetrics(array) ==
    IF Len(array) = 0
    THEN [ threw |-> TRUE, value |-> <<>> ]
    ELSE [ threw |-> FALSE, value |-> << AverageRecord(array) >> ]

-----------------------------------------------------------------------------
(* The runs the averager is given.  A run is one page load of one domain in *)
(* one environment: url, domain, testEnv and method are those of the        *)
(* domain, measureTime is the run's own, a timing a run did not report is   *)
(* Undefined, and the request counts are those of one capture               *)
(* (blocked + notBlocked = total, the hostnames counts add to notBlocked).  *)

EmptyMap == [ k \in {} |-> 0 ]

\* (loadTimeMs, domContentLoadTimeMs, totalBytes, thirdPartyBytes, measureTime)
TimingChoices ==
    { << Num(200), Num(100), Num(1000), Num(500), "t1" >>,
      << Undefined, Num(100), Num(1000), Undefined, "t2" >>,
      << Num(100), Undefined, Num(2000), Num(500), "t3" >>,
      << Undefined, Undefined, Num(1000), Undefined, "t4" >> }

\* (blocked, notBlocked, thirdPartyBlocked, thirdPartyNotBlocked, hostnames, etldPlus1s)
TrafficChoices ==
    { << Num(1), Num(0), Num(0), Num(0), EmptyMap, EmptyMap >>,
      << Num(0), Num(1), Num(0), Num(0),
         ("www.example.com" :> Num(1)), ("example.com" :> Num(1)) >>,
      << Num(0), Num(0), Num(0), Num(0),
         ("www.example.com" :> Num(0)), ("example.com" :> Num(0)) >>,
      << Num(1), Num(3), Num(1), Num(2),
         ("www.example.com" :> Num(1)) @@ ("cdn.tracker.com" :> Num(2)),
         ("example.com" :> Num(1)) @@ ("tracker.com" :> Num(2)) >>,
      << Num(0), Num(3), Num(0), Num(3),
         ("cdn.tracker.com" :> Num(3)), ("tracker.com" :> Num(3)) >> }

BaseTiming == << Num(200), Num(100), Num(1000), Num(500), "t1" >>
BaseTraffic == << Num(1), Num(0), Num(0), Num(0), EmptyMap, EmptyMap >>

Run(timing, traffic) ==
    [ url |-> "https://example.com",
      domain |-> "example.com",
      measureTime |-> timing[5],
      testEnv |-> "extension",
      method |-> "puppeteer",
      domContentLoadTimeMs |-> timing[2],
      loadTimeMs |-> timing[1],
      weight |-> [ totalBytes |-> timing[3], thirdPartyBytes |-> timing[4] ],
      requests |->
        [ totalRequests |-> traffic[1] + traffic[2],
          blockedRequests |-> traffic[1],
          notBlockedRequests |-> traffic[2],
          thirdPartyRequests |-> traffic[3] + traffic[4],
          thirdPartyBlockedRequests |-> traffic[3],
          thirdPartyNotBlockedRequests |-> traffic[4],
          hostnames |-> traffic[5],
          etldPlus1s |-> traffic[6] ] ]

\* the runs: every timing with the base traffic, every traffic with the base timing
RunSet ==
    { Run(t, BaseTraffic) : t \in TimingChoices }
        \cup { Run(BaseTiming, f) : f \in TrafficChoices }

RECURSIVE SeqsUpTo(_, _)
SeqsUpTo(S, n) ==
    IF n = 0 THEN { <<>> }
    ELSE LET shorter == SeqsUpTo(S, n - 1)
         IN  shorter \cup { Append(s, x) : s \in shorter, x \in S }

-----------------------------------------------------------------------------
(* The averager as a state machine: one call on the runs, then one call on  *)
(* its own result.                                                          *)

\* averagedMetrics = computeAverageMetrics(metricsArray)
ComputeAverage ==
    /\ avgPc = "idle"
    /\ LET r == computeAverageMetrics(metricsArray)
       IN  /\ avgPc' = IF r.threw THEN "threw" ELSE "returned"
           /\ averagedMetrics' = r.value
    /\ UNCHANGED <<metricsArray, reaveraged>>
    /\ UNCHANGED <<reportVars, statsVars, laterVars>>

\* reaveraged = computeAverageMetrics([averagedMetrics])
Reaverage ==
    /\ avgPc = "returned"
    /\ reaveraged = <<>>
    /\ reaveraged' = computeAverageMetrics(averagedMetrics).value
    /\ UNCHANGED <<metricsArray, avgPc, averagedMetrics>>
    /\ UNCHANGED <<reportVars, statsVars, laterVars>>

ReportIdle ==
    /\ inputFiles = <<>>
    /\ disk = EmptyMap
    /\ pc = "idle"
    /\ allData = <<>>
    /\ commonDomains = {}
    /\ filterArgs = <<>>
    /\ reportResultsMap = EmptyMap
    /\ built = <<>>

StatsIdle ==
    /\ statsData = <<>>
    /\ statsResult = <<>>
    /\ detectedEnv = <<>>

AvgInit ==
    /\ metricsArray \in SeqsUpTo(RunSet, MaxRuns)
    /\ avgPc = "idle"
    /\ averagedMetrics = <<>>
    /\ reaveraged = <<>>
    /\ referenceData = <<>>
    /\ StatsIdle
    /\ ReportIdle
    /\ LaterIdle

AvgNext == ComputeAverage \/ Reaverage

\* the averager on every sequence of at most MaxRuns runs
SpecAvg == AvgInit /\ [][AvgNext]_vars

-----------------------------------------------------------------------------
(* Report generation: src/src/report-generator/report-generator.ts.         *)
(* A MetricsData object is held as the sequence of its (domain, entries)    *)
(* pairs in key order, the domains distinct.                                *)

\* const MIN_REQUESTS_THRESHOLD
MIN_REQUESTS_THRESHOLD == 20

\* Object.keys(data)
Keys(data) == { data[i].domain : i \in 1..Len(data) }

\* data[domain], for a domain of Keys(data)
EntriesOf(data, domain) ==
    data[CHOOSE i \in 1..Len(data) : data[i].domain = domain].entries

\* a mutant of IsValidDomain: the threshold itself is not enough
IsValidDomainStrict(entries) ==
    LET totalRequests ==
            SeqSum([i \in 1..Len(entries) |-> OrZero(entries[i].requests.totalRequests)])
    IN  /\ Len(entries) > 0
        /\ totalRequests > Num(MIN_REQUESTS_THRESHOLD) * Len(entries)

\* findCommonDomains: the filter on a domain's entries,
\* totalRequests / entries.length >= MIN_REQUESTS_THRESHOLD
\* (no entries: 0 / 0 is NaN, and NaN >= 20 is false)
IsValidDomain(entries) ==
    LET totalRequests ==
            SeqSum([i \in 1..Len(entries) |-> OrZero(entries[i].requests.totalRequests)])
    IN  /\ Len(entries) > 0
        /\ totalRequests >= Num(MIN_REQUESTS_THRESHOLD) * Len(entries)

\* findCommonDomains: `domains`, the Set of the valid domains of one data set
ValidDomains(data) ==
    { data[i].domain : i \in { j \in 1..Len(data) : IsValidDomain(data[j].entries) } }

\* findCommonDomains: allData.reduce(..., null) over the first n data sets,
\* the accumulator as <<>> (null) or <<set>>
RECURSIVE ReduceCommon(_, _)
ReduceCommon(data, n) ==
    IF n = 0 THEN <<>>
    ELSE LET acc == ReduceCommon(data, n - 1)
             domains == ValidDomains(data[n])
         IN  IF acc = <<>> THEN << domains >>
             ELSE << { domain \in acc[1] : domain \in domains } >>

\* findCommonDomains(allData): process.exit(1) when the reduce gives null
\* (`!commonDomains`; an empty Set is not null), else the Set
findCommonDomains(data) ==
    LET acc == ReduceCommon(data, Len(data))
    IN  IF acc = <<>>
        THEN [ exited |-> TRUE, commonDomains |-> {} ]
        ELSE [ exited |-> FALSE, commonDomains |-> acc[1] ]

\* the same without the switch: the testEnv of the first entry as it is
determineTestEnvironmentAsIs(data) ==
    IF Len(data) = 0 THEN "baseline"
    ELSE IF Len(data[1].entries) = 0 THEN "baseline"
    ELSE IF data[1].entries[1].testEnv = "" THEN "baseline"
    ELSE data[1].entries[1].testEnv

\* determineTestEnvironment(data)
determineTestEnvironment(data) ==
    IF Len(data) = 0 THEN "baseline"
    ELSE IF Len(data[1].entries) = 0 THEN "baseline"
    ELSE LET testEnv == data[1].entries[1].testEnv
         IN  IF testEnv = "" THEN "baseline"
             ELSE IF testEnv \in {"baseline", "dns", "extension"} THEN testEnv
             ELSE "none"

\* a mutant of filterDataByCommonDomains: nothing is filtered out
filterDataByCommonDomainsUnfiltered(data, common) ==
    [ filteredData |-> data, data |-> data, commonDomains |-> common ]

\* a mutant of filterDataByCommonDomains: the excluded domains are deleted
\* from the data given
filterDataByCommonDomainsInPlace(data, common) ==
    [ filteredData |-> SelectSeq(data, LAMBDA p : p.domain \in common),
      data |-> SelectSeq(data, LAMBDA p : p.domain \in common),
      commonDomains |-> common ]

\* filterDataByCommonDomains(data, commonDomains): what it returns, and its
\* two arguments as the call leaves them
filterDataByCommonDomains(data, common) ==
    [ filteredData |-> SelectSeq(data, LAMBDA p : p.domain \in common),
      data |-> data,
      commonDomains |-> common ]

-----------------------------------------------------------------------------
(* computeStatistics: the aggregation of one MetricsData into a ReportResult *)

\* getDomain(hostname) of tldts, as a table over the hostnames of the model:
\* <<e>> is the registrable domain e, <<>> is null (an IP address has none)
RegistrableDomains ==
    ( "example.com" :> << "example.com" >> )
        @@ ( "cdn.example.com" :> << "example.com" >> )
        @@ ( "analytics.com" :> << "analytics.com" >> )
        @@ ( "px.analytics.com" :> << "analytics.com" >> )
        @@ ( "api.analytics.com" :> << "analytics.com" >> )
        @@ ( "old.analytics.com" :> << "analytics.com" >> )
        @@ ( "test.com" :> << "test.com" >> )
        @@ ( "a.com" :> << "a.com" >> )
        @@ ( "b.com" :> << "b.com" >> )
        @@ ( "10.0.0.1" :> <<>> )

getDomain(hostname) == RegistrableDomains[hostname]

\* etldPlus1.split('.')[0]
FirstLabels ==
    ( "example.com" :> "example" )
        @@ ( "analytics.com" :> "analytics" )
        @@ ( "test.com" :> "test" )
        @@ ( "a.com" :> "a" )
        @@ ( "b.com" :> "b" )

domainWithoutTLD(etldPlus1) == FirstLabels[etldPlus1]

\* TrackersData.trackerDomains: hostname or registrable domain -> tracker id;
\* "ghost" is an id that TrackersData.trackers does not hold
TrackerDomains ==
    ( "px.analytics.com" :> "pixel" )
        @@ ( "analytics.com" :> "analytics" )
        @@ ( "old.analytics.com" :> "ghost" )

\* TrackersData.trackers: tracker id -> TrackerInfo; companyId is <<>> for
\* null. The two tables differ in the owner of the tracker "analytics".
TrackersUnowned ==
    ( "pixel" :> [ name |-> "Pixel", companyId |-> << "pixelco" >> ] )
        @@ ( "analytics" :> [ name |-> "Analytics", companyId |-> <<>> ] )

TrackersOwned ==
    ( "pixel" :> [ name |-> "Pixel", companyId |-> << "pixelco" >> ] )
        @@ ( "analytics" :> [ name |-> "Analytics",
                              companyId |-> << "analyticsco" >> ] )

\* CompaniesData.companies: company id -> CompanyInfo
Companies ==
    ( "pixelco" :> [ name |-> "Pixel Co" ] )
        @@ ( "analyticsco" :> [ name |-> "Analytics Co" ] )
        @@ ( "example" :> [ name |-> "Example Inc" ] )

\* the reference tables read from trackers.json and companies.json
ReferenceTables(trackers) ==
    [ trackersInfo |-> [ trackers |-> trackers,
                         trackerDomains |-> TrackerDomains ],
      companiesInfo |-> [ companies |-> Companies ] ]

ReferenceChoices == { ReferenceTables(TrackersUnowned),
                      ReferenceTables(TrackersOwned) }

\* initializeAggregatedData()
initializeAggregatedData ==
    [ totalDomContentLoadTime |-> 0,
      totalLoadTime |-> 0,
      totalBytes |-> 0,
      totalRequests |-> 0,
      totalThirdPartyRequests |-> 0,
      totalBlockedRequests |-> 0,
      totalHostnames |-> 0,
      totalEtldPlus1s |-> 0 ]

\* initializeCollectedData(): the sets of websites per entity (the request
\* tallies hostnamesData, etldPlus1Data, trackersData and companiesData are
\* filled by the code and never read, they are left out)
initializeCollectedData ==
    [ etldPlus1WebsitesData |-> EmptyMap,
      companiesWebsitesData |-> EmptyMap,
      trackersWebsitesData |-> EmptyMap ]

\* the same without || 0
aggregateBasicMetricsRaw(entry, aggregatedData) ==
    [ aggregatedData EXCEPT
        !.totalDomContentLoadTime = @ + entry.domContentLoadTimeMs,
        !.totalLoadTime = @ + entry.loadTimeMs,
        !.totalBytes = @ + entry.weight.totalBytes,
        !.totalRequests = @ + entry.requests.totalRequests,
        !.totalThirdPartyRequests = @ + entry.requests.thirdPartyRequests,
        !.totalBlockedRequests = @ + entry.requests.blockedRequests ]

\* aggregateBasicMetrics(entry, aggregatedData): x || 0 on every field
aggregateBasicMetrics(entry, aggregatedData) ==
    [ aggregatedData EXCEPT
        !.totalDomContentLoadTime = @ + OrZero(entry.domContentLoadTimeMs),
        !.totalLoadTime = @ + OrZero(entry.loadTimeMs),
        !.totalBytes = @ + OrZero(entry.weight.totalBytes),
        !.totalRequests = @ + OrZero(entry.requests.totalRequests),
        !.totalThirdPartyRequests = @ + OrZero(entry.requests.thirdPartyRequests),
        !.totalBlockedRequests = @ + OrZero(entry.requests.blockedRequests) ]

\* the same, every call adding an element of its own
AddVisit(websitesData, name, domain) ==
    IF name \in DOMAIN websitesData
        THEN [ websitesData EXCEPT
                 ![name] = @ \cup { << domain, Cardinality(@) >> } ]
        ELSE ( name :> { << domain, 0 >> } ) @@ websitesData

\* the set created on first use and left empty
AddWebsiteAfterFirst(websitesData, name, domain) ==
    IF name \in DOMAIN websitesData
        THEN [ websitesData EXCEPT ![name] = @ \cup { domain } ]
        ELSE ( name :> {} ) @@ websitesData

\* websitesData[name].add(domain), the set created on first use
AddWebsite(websitesData, name, domain) ==
    IF name \in DOMAIN websitesData
        THEN [ websitesData EXCEPT ![name] = @ \cup { domain } ]
        ELSE ( name :> { domain } ) @@ websitesData

\* trackerId = trackerDomains[key]; trackerId && trackers[trackerId]:
\* <<info>> when both lookups succeed, <<>> otherwise
KnownTracker(key, trackersInfo) ==
    IF key \in DOMAIN trackersInfo.trackerDomains
        THEN LET trackerId == trackersInfo.trackerDomains[key]
             IN  IF trackerId \in DOMAIN trackersInfo.trackers
                     THEN << trackersInfo.trackers[trackerId] >>
                     ELSE <<>>
        ELSE <<>>

\* the same, the eTLD+1 looked up before the hostname
TrackerNameEtldPlus1First(hostname, trackersInfo) ==
    LET etldPlus1 == getDomain(hostname)
        byEtld == IF etldPlus1 = <<>> THEN <<>>
                  ELSE KnownTracker(etldPlus1[1], trackersInfo)
        exact == KnownTracker(hostname, trackersInfo)
    IN  IF byEtld # <<>> THEN << byEtld[1].name >>
        ELSE IF exact # <<>> THEN << exact[1].name >>
        ELSE IF etldPlus1 = <<>> THEN << hostname >>
        ELSE <<>>

\* the trackerName processTrackers ends with: <<name>>, or <<>> where the
\* code returns early or the name is empty
TrackerName(hostname, trackersInfo) ==
    LET exact == KnownTracker(hostname, trackersInfo)
        etldPlus1 == getDomain(hostname)
        named(name) == IF name = "" THEN <<>> ELSE << name >>
    IN  IF exact # <<>> THEN named(exact[1].name)
        ELSE IF etldPlus1 # <<>>
            THEN LET byEtld == KnownTracker(etldPlus1[1], trackersInfo)
                 IN  IF byEtld # <<>> THEN named(byEtld[1].name) ELSE <<>>
            ELSE named(hostname)

\* processTrackers(hostname, count, domain, collectedData, trackersInfo)
processTrackers(hostname, domain, collectedData, trackersInfo) ==
    LET trackerName == TrackerName(hostname, trackersInfo)
    IN  IF trackerName = <<>> THEN collectedData
        ELSE [ collectedData EXCEPT
                 !.trackersWebsitesData = AddWebsite(@, trackerName[1], domain) ]

\* companyId && companies[companyId] ? companies[companyId].name : companyName
CompanyOfTracker(tracker, companyName, companiesInfo) ==
    IF tracker.companyId # <<>>
       /\ tracker.companyId[1] \in DOMAIN companiesInfo.companies
        THEN companiesInfo.companies[tracker.companyId[1]].name
        ELSE companyName

\* the companyName processCompanies ends with: <<name>>, or <<>> where the
\* code returns early or the name is empty
CompanyName(hostname, trackersInfo, companiesInfo) ==
    LET etldPlus1 == getDomain(hostname)
        companyName == IF etldPlus1 # <<>> THEN etldPlus1[1] ELSE hostname
        exact == KnownTracker(hostname, trackersInfo)
        named(name) == IF name = "" THEN <<>> ELSE << name >>
    IN  IF exact # <<>>
            THEN named(CompanyOfTracker(exact[1], companyName, companiesInfo))
        ELSE IF etldPlus1 # <<>>
            THEN LET byEtld == KnownTracker(etldPlus1[1], trackersInfo)
                     label == domainWithoutTLD(etldPlus1[1])
                 IN  IF byEtld # <<>>
                         THEN named(CompanyOfTracker(byEtld[1], companyName,
                                                     companiesInfo))
                     ELSE IF label \in DOMAIN companiesInfo.companies
                         THEN named(companiesInfo.companies[label].name)
                     ELSE <<>>
            ELSE named(companyName)

\* processCompanies(hostname, count, domain, collectedData, trackersInfo,
\* companiesInfo)
processCompanies(hostname, domain, collectedData, trackersInfo, companiesInfo) ==
    LET companyName == CompanyName(hostname, trackersInfo, companiesInfo)
    IN  IF companyName = <<>> THEN collectedData
        ELSE [ collectedData EXCEPT
                 !.companiesWebsitesData = AddWebsite(@, companyName[1], domain) ]

\* the second loop of processHostnameData: the website joins the set of the
\* hostname's registrable domain, when it has one
AddEtldPlus1Website(hostname, domain, collectedData) ==
    LET etldPlus1 == getDomain(hostname)
    IN  IF etldPlus1 = <<>> THEN collectedData
        ELSE [ collectedData EXCEPT
                 !.etldPlus1WebsitesData = AddWebsite(@, etldPlus1[1], domain) ]

\* the loops of processHostnameData over the hostname keys of one entry
RECURSIVE ForEachHostname(_, _, _, _, _)
ForEachHostname(keys, domain, collectedData, trackersInfo, companiesInfo) ==
    IF keys = {} THEN collectedData
    ELSE LET hostname == CHOOSE k \in keys : TRUE
             tracked == processTrackers(hostname, domain, collectedData,
                                        trackersInfo)
             owned == processCompanies(hostname, domain, tracked,
                                       trackersInfo, companiesInfo)
         IN  ForEachHostname(keys \ { hostname }, domain,
                             AddEtldPlus1Website(hostname, domain, owned),
                             trackersInfo, companiesInfo)

\* only the hostnames that have a registrable domain counted
processHostnameDataRegistrable(hostnames, domain, state, trackersInfo, companiesInfo) ==
    [ aggregatedData |->
        [ state.aggregatedData EXCEPT
            !.totalHostnames =
                @ + Cardinality({ h \in DOMAIN hostnames : getDomain(h) # <<>> }) ],
      collectedData |->
        ForEachHostname(DOMAIN hostnames, domain, state.collectedData,
                        trackersInfo, companiesInfo) ]

\* processHostnameData(hostnames, domain, ...): [aggregatedData, collectedData]
processHostnameData(hostnames, domain, state, trackersInfo, companiesInfo) ==
    [ aggregatedData |->
        [ state.aggregatedData EXCEPT
            !.totalHostnames = @ + Cardinality(DOMAIN hostnames) ],
      collectedData |->
        ForEachHostname(DOMAIN hostnames, domain, state.collectedData,
                        trackersInfo, companiesInfo) ]

\* processEtldPlus1Data(etldPlus1s, aggregatedData, collectedData)
processEtldPlus1Data(etldPlus1s, state) ==
    [ state EXCEPT
        !.aggregatedData.totalEtldPlus1s = @ + Cardinality(DOMAIN etldPlus1s) ]

\* the body of the loop of processAllDomains over the entries of a domain
processEntry(entry, domain, state, trackersInfo, companiesInfo) ==
    LET basic == [ state EXCEPT
                     !.aggregatedData = aggregateBasicMetrics(entry, @) ]
        hosts == processHostnameData(entry.requests.hostnames, domain, basic,
                                     trackersInfo, companiesInfo)
    IN  processEtldPlus1Data(entry.requests.etldPlus1s, hosts)

RECURSIVE ForEachEntry(_, _, _, _, _)
ForEachEntry(entries, domain, state, trackersInfo, companiesInfo) ==
    IF entries = <<>> THEN state
    ELSE ForEachEntry(Tail(entries), domain,
                      processEntry(Head(entries), domain, state,
                                   trackersInfo, companiesInfo),
                      trackersInfo, companiesInfo)

\* processAllDomains(domains, data, trackersInfo, companiesInfo,
\* aggregatedData, collectedData)
RECURSIVE processAllDomains(_, _, _, _)
processAllDomains(data, state, trackersInfo, companiesInfo) ==
    IF data = <<>> THEN state
    ELSE processAllDomains(Tail(data),
                           ForEachEntry(Head(data).entries, Head(data).domain,
                                        state, trackersInfo, companiesInfo),
                           trackersInfo, companiesInfo)

\* convertSetsToCountMaps: websitesData[key].size for every key
SetsToCounts(websitesData) ==
    [ key \in DOMAIN websitesData |-> Cardinality(websitesData[key]) ]

\* a / b of two numbers, kept as the fraction; 0 / 0 is NaN
Divide(a, b) == [ num |-> a, den |-> b ]
IsNaN(q) == q.num = 0 /\ q.den = 0

\* Number(x.toFixed(0)) of a number in hundredths, x >= 0
NumberToFixed0(x) == ((x + (Scale \div 2)) \div Scale) * Scale

\* calculateAverages(aggregatedData, siteCount)
calculateAverages(aggregatedData, siteCount) ==
    LET per(total) == Divide(total, siteCount)
    IN  [ averageDomContentLoadTime |-> per(aggregatedData.totalDomContentLoadTime),
          averageLoadTime |-> per(aggregatedData.totalLoadTime),
          averageBytes |-> per(aggregatedData.totalBytes),
          averageRequests |-> per(aggregatedData.totalRequests),
          averageThirdPartyRequests |-> per(aggregatedData.totalThirdPartyRequests),
          averageBlockedRequests |-> per(aggregatedData.totalBlockedRequests),
          averageHostnames |-> per(aggregatedData.totalHostnames),
          averageEtldPlus1s |-> per(aggregatedData.totalEtldPlus1s) ]

\* assembleResult(siteCount, aggregatedData, averages, data, ...)
assembleResult(siteCount, aggregatedData, averages, data, collectedData) ==
    [ siteCount |-> siteCount,
      averageDomContentLoadTime |-> averages.averageDomContentLoadTime,
      averageLoadTime |-> averages.averageLoadTime,
      totalLoadTime |-> aggregatedData.totalLoadTime,
      averageBytes |-> averages.averageBytes,
      totalBytes |-> aggregatedData.totalBytes,
      averageRequests |-> averages.averageRequests,
      totalRequests |-> NumberToFixed0(aggregatedData.totalRequests),
      averageThirdPartyRequests |-> averages.averageThirdPartyRequests,
      totalThirdPartyRequests |->
          NumberToFixed0(aggregatedData.totalThirdPartyRequests),
      averageBlockedRequests |-> averages.averageBlockedRequests,
      totalBlockedRequests |->
          NumberToFixed0(aggregatedData.totalBlockedRequests),
      averageHostnames |-> averages.averageHostnames,
      totalHostnames |-> aggregatedData.totalHostnames,
      averageEtldPlus1s |-> averages.averageEtldPlus1s,
      totalEtldPlus1s |-> aggregatedData.totalEtldPlus1s,
      domainsData |-> data,
      etldPlus1WebsitesData |-> SetsToCounts(collectedData.etldPlus1WebsitesData),
      companiesWebsitesData |-> SetsToCounts(collectedData.companiesWebsitesData),
      trackersWebsitesData |-> SetsToCounts(collectedData.trackersWebsitesData),
      type |-> "baseline" ]

\* the number of entries of data
EntryCount(data) == SeqSum([ i \in 1..Len(data) |-> Len(data[i].entries) ])

\* the number of domains of data, 1 for none
SiteCountOrOne(data) == IF Len(data) = 0 THEN 1 ELSE Len(data)

\* Object.keys(data).length
SiteCount(data) == Len(data)

\* computeStatistics(data, trackersInfo, companiesInfo)
computeStatistics(data, trackersInfo, companiesInfo) ==
    LET siteCount == SiteCount(data)
        state == processAllDomains(data,
                                   [ aggregatedData |-> initializeAggregatedData,
                                     collectedData |-> initializeCollectedData ],
                                   trackersInfo, companiesInfo)
    IN  assembleResult(siteCount, state.aggregatedData,
                       calculateAverages(state.aggregatedData, siteCount),
                       data, state.collectedData)

-----------------------------------------------------------------------------
(* Reading the input files *)

\* path.basename(file)
basename(file) == file.base

\* what reading and parsing a file gives
Unreadable == [ readable |-> FALSE, data |-> <<>> ]
Readable(data) == [ readable |-> TRUE, data |-> data ]

-----------------------------------------------------------------------------
(* The input of a report run *)

\* the environment a domain was measured in: runs of several environments
\* may be written to one output file (option --output-file)
EnvironmentOf(domain) == IF domain = "a.com" THEN "dns" ELSE "extension"

\* an entry of a metrics file: one averaged record of a domain
Entry(domain, totalRequests) ==
    [ url |-> "https://" \o domain,
      domain |-> domain,
      measureTime |-> "t1",
      testEnv |-> EnvironmentOf(domain),
      method |-> "puppeteer",
      domContentLoadTimeMs |-> Num(100),
      loadTimeMs |-> Num(200),
      weight |-> [ totalBytes |-> Num(1000), thirdPartyBytes |-> Num(500) ],
      requests |->
        [ totalRequests |-> Num(totalRequests),
          blockedRequests |-> Num(0),
          notBlockedRequests |-> Num(totalRequests),
          thirdPartyRequests |-> Num(0),
          thirdPartyBlockedRequests |-> Num(0),
          thirdPartyNotBlockedRequests |-> Num(0),
          hostnames |-> (domain :> Num(totalRequests)),
          etldPlus1s |-> (domain :> Num(totalRequests)) ] ]

Entries(domain, totals) == [ i \in 1..Len(totals) |-> Entry(domain, totals[i]) ]

\* the totalRequests of the entries a file may hold for a domain
TotalsA == { <<>>, <<15>>, <<20>>, <<15, 25>> }
TotalsB == { <<15>>, <<25>> }

DomainA(totals) == [ domain |-> "a.com", entries |-> Entries("a.com", totals) ]
DomainB(totals) == [ domain |-> "b.com", entries |-> Entries("b.com", totals) ]

\* the MetricsData a file may hold: a.com, b.com, both (in either key order)
\* or none
DataChoices ==
    { <<>> }
        \cup { << DomainA(a) >> : a \in TotalsA }
        \cup { << DomainB(b) >> : b \in TotalsB }
        \cup { << DomainA(a), DomainB(b) >> : a \in TotalsA, b \in TotalsB }
        \cup { << DomainB(b), DomainA(a) >> : a \in TotalsA, b \in TotalsB }

FileContents == { Unreadable } \cup { Readable(d) : d \in DataChoices }

\* the paths of the command line, in order
ReportPaths ==
    << [ dir |-> "dist/metrics", base |-> "baseline.json" ],
       [ dir |-> "dist/metrics", base |-> "dns.json" ],
       [ dir |-> "dist/metrics", base |-> "extension.json" ],
       [ dir |-> "dist/metrics", base |-> "none.json" ] >>

\* the lists of input files: the first n paths, and two files of the same
\* base name in two directories
InputFileLists ==
    { SubSeq(ReportPaths, 1, n) : n \in 0..MaxFiles }
        \cup { << ReportPaths[1], [ dir |-> "old/metrics", base |-> "baseline.json" ] >> }

Range(s) == { s[i] : i \in 1..Len(s) }

-----------------------------------------------------------------------------
(* generateReport as a state machine *)

\* loadMetricsData: one iteration of the loop, the file is read and parsed
LoadFile ==
    /\ pc = "load"
    /\ Len(allData) < Len(inputFiles)
    /\ LET file == inputFiles[Len(allData) + 1]
       IN  /\ disk[file].readable
           /\ allData' = Append(allData, disk[file].data)
    /\ UNCHANGED <<inputFiles, disk, pc, commonDomains, filterArgs,
                   reportResultsMap, built>>
    /\ UNCHANGED <<avgVars, statsVars, laterVars>>

\* the same, the error logged and the file taken as empty
LoadFileSkips ==
    /\ pc = "load"
    /\ Len(allData) < Len(inputFiles)
    /\ ~disk[inputFiles[Len(allData) + 1]].readable
    /\ allData' = Append(allData, <<>>)
    /\ UNCHANGED <<inputFiles, disk, pc, commonDomains, filterArgs,
                   reportResultsMap, built>>
    /\ UNCHANGED <<avgVars, statsVars, laterVars>>

\* loadMetricsData: one iteration of the loop, readFile or JSON.parse throws:
\* process.exit(1)
LoadFileFails ==
    /\ pc = "load"
    /\ Len(allData) < Len(inputFiles)
    /\ ~disk[inputFiles[Len(allData) + 1]].readable
    /\ pc' = "exit"
    /\ UNCHANGED <<inputFiles, disk, allData, commonDomains, filterArgs,
                   reportResultsMap, built>>
    /\ UNCHANGED <<avgVars, statsVars, laterVars>>

\* generateReport: commonDomains = findCommonDomains(allData)
FindCommonDomains ==
    /\ pc = "load"
    /\ Len(allData) = Len(inputFiles)
    /\ LET r == findCommonDomains(allData)
       IN  /\ pc' = IF r.exited THEN "exit" ELSE "results"
           /\ commonDomains' = r.commonDomains
    /\ UNCHANGED <<inputFiles, disk, allData, filterArgs, reportResultsMap, built>>
    /\ UNCHANGED <<avgVars, statsVars, laterVars>>

\* generateReportResults: one iteration of the loop over the input files
GenerateResult ==
    /\ pc = "results"
    /\ Len(filterArgs) < Len(inputFiles)
    /\ LET i == Len(filterArgs) + 1
           fileName == basename(inputFiles[i])
           f == filterDataByCommonDomains(allData[i], commonDomains)
           environmentType == determineTestEnvironment(f.filteredData)
           result == [ computeStatistics(f.filteredData,
                                         referenceData.trackersInfo,
                                         referenceData.companiesInfo)
                         EXCEPT !.type = environmentType ]
       IN  /\ allData' = [ allData EXCEPT ![i] = f.data ]
           /\ commonDomains' = f.commonDomains
           /\ filterArgs' = Append(filterArgs,
                                   [ data |-> allData[i],
                                     commonDomains |-> commonDomains,
                                     filteredData |-> f.filteredData,
                                     result |-> result ])
           /\ reportResultsMap' = (fileName :> result) @@ reportResultsMap
    /\ UNCHANGED <<inputFiles, disk, pc, built>>
    /\ UNCHANGED <<avgVars, statsVars, laterVars>>

\* generateReport: buildApp(outputDir, reportResultsMap, reportFilename)
BuildApp ==
    /\ pc = "results"
    /\ Len(filterArgs) = Len(inputFiles)
    /\ built' = << reportResultsMap >>
    /\ pc' = "done"
    /\ UNCHANGED <<inputFiles, disk, allData, commonDomains, filterArgs,
                   reportResultsMap>>
    /\ UNCHANGED <<avgVars, statsVars, laterVars>>

AvgIdle ==
    /\ metricsArray = <<>>
    /\ avgPc = "idle"
    /\ averagedMetrics = <<>>
    /\ reaveraged = <<>>

ReportInit ==
    /\ inputFiles \in InputFileLists
    /\ disk \in [ Range(inputFiles) -> FileContents ]
    /\ pc = "load"
    /\ allData = <<>>
    /\ commonDomains = {}
    /\ filterArgs = <<>>
    /\ reportResultsMap = EmptyMap
    /\ built = <<>>
    /\ referenceData = ReferenceTables(TrackersOwned)
    /\ StatsIdle
    /\ AvgIdle
    /\ LaterIdle

ReportNext ==
    \/ LoadFile
    \/ LoadFileFails
    \/ FindCommonDomains
    \/ GenerateResult
    \/ BuildApp

\* one run of generateReport on every list of input files
SpecReport == ReportInit /\ [][ReportNext]_vars

-----------------------------------------------------------------------------
(* computeStatistics and determineTestEnvironment on every MetricsData of a
   bounded family *)

\* an entry of a metrics file, its numbers in hundredths
StatsEntry(domain, testEnv, timing, counts, hostnames, etldPlus1s) ==
    [ url |-> "https://" \o domain,
      domain |-> domain,
      measureTime |-> "t1",
      testEnv |-> testEnv,
      method |-> "puppeteer",
      domContentLoadTimeMs |-> timing.domContentLoadTimeMs,
      loadTimeMs |-> timing.loadTimeMs,
      weight |-> [ totalBytes |-> timing.totalBytes,
                   thirdPartyBytes |-> 0 ],
      requests |->
        [ totalRequests |-> counts.totalRequests,
          blockedRequests |-> counts.blockedRequests,
          notBlockedRequests |-> counts.totalRequests - counts.blockedRequests,
          thirdPartyRequests |-> counts.thirdPartyRequests,
          thirdPartyBlockedRequests |-> 0,
          thirdPartyNotBlockedRequests |-> counts.thirdPartyRequests,
          hostnames |-> hostnames,
          etldPlus1s |-> etldPlus1s ] ]

Timing(domContentLoadTimeMs, loadTimeMs, totalBytes) ==
    [ domContentLoadTimeMs |-> domContentLoadTimeMs,
      loadTimeMs |-> loadTimeMs,
      totalBytes |-> totalBytes ]

Counts(totalRequests, blockedRequests, thirdPartyRequests) ==
    [ totalRequests |-> totalRequests,
      blockedRequests |-> blockedRequests,
      thirdPartyRequests |-> thirdPartyRequests ]

\* the two entries of the test "should calculate basic statistics correctly"
ShopEntry(domain) ==
    StatsEntry(domain, "baseline",
               Timing(Num(1000), Num(2000), Num(1500)),
               Counts(Num(20), Num(5), Num(10)),
               ( "example.com" :> Num(10) ) @@ ( "analytics.com" :> Num(5) )
                   @@ ( "cdn.example.com" :> Num(5) ),
               ( "example.com" :> Num(15) ) @@ ( "analytics.com" :> Num(5) ))

NewsEntry(domain) ==
    StatsEntry(domain, "baseline",
               Timing(Num(500), Num(1000), Num(1000)),
               Counts(Num(10), Num(2), Num(4)),
               ( "test.com" :> Num(6) ) @@ ( "analytics.com" :> Num(4) ),
               ( "test.com" :> Num(6) ) @@ ( "analytics.com" :> Num(4) ))

\* an entry averaged over three runs: fractional counts, no load event
AveragedEntry(domain) ==
    StatsEntry(domain, "dns",
               Timing(Num(333) + 33, Undefined, Num(1200)),
               Counts(Num(20) + 33, 67, Num(3) + 33),
               ( "px.analytics.com" :> 33 ) @@ ( "api.analytics.com" :> Num(1) ),
               ( "analytics.com" :> Num(1) + 33 ))

\* requests to an IP address and to a hostname of an unknown tracker id
LocalEntry(domain) ==
    StatsEntry(domain, "extension",
               Timing(Num(100), Num(200), Num(300)),
               Counts(Num(3), 0, Num(3)),
               ( "10.0.0.1" :> Num(2) ) @@ ( "old.analytics.com" :> Num(1) ),
               ( "analytics.com" :> Num(1) ))

\* no testEnv, no request
BareEntry(domain) ==
    StatsEntry(domain, "",
               Timing(0, 0, 0), Counts(0, 0, 0), EmptyMap, EmptyMap)

\* a testEnv that is none of the known environments
OddEntry(domain) ==
    StatsEntry(domain, "chaos",
               Timing(Num(50), Num(60), Num(70)),
               Counts(Num(3) + 50, 50, Num(2)),
               ( "cdn.example.com" :> Num(1) + 50 ) @@ ( "px.analytics.com" :> Num(2) ),
               ( "example.com" :> Num(1) + 50 ) @@ ( "analytics.com" :> Num(2) ))

EntryListKinds == { "shop", "news", "averaged", "local", "bare", "odd", "empty",
                    "shop+averaged", "local+local", "averaged+odd" }

\* the entries a file may hold for a domain
EntryList(kind, domain) ==
    CASE kind = "shop" -> << ShopEntry(domain) >>
      [] kind = "news" -> << NewsEntry(domain) >>
      [] kind = "averaged" -> << AveragedEntry(domain) >>
      [] kind = "local" -> << LocalEntry(domain) >>
      [] kind = "bare" -> << BareEntry(domain) >>
      [] kind = "odd" -> << OddEntry(domain) >>
      [] kind = "empty" -> <<>>
      [] kind = "shop+averaged" -> << ShopEntry(domain), AveragedEntry(domain) >>
      [] kind = "local+local" -> << LocalEntry(domain), LocalEntry(domain) >>
      [] kind = "averaged+odd" -> << AveragedEntry(domain), OddEntry(domain) >>

\* the tested domains, in the key order of the file
StatsSites == << "example.com", "test.com", "a.com", "b.com" >>

\* the MetricsData of at most MaxSites domains
StatsDataChoices ==
    UNION { { [ i \in 1..n |-> [ domain |-> StatsSites[i],
                                 entries |-> EntryList(kinds[i], StatsSites[i]) ] ]
              : kinds \in [ 1..n -> EntryListKinds ] }
            : n \in 0..MaxSites }

\* computeStatistics(statsData, trackersInfo, companiesInfo)
ComputeStatistics ==
    /\ statsResult = <<>>
    /\ statsResult' = << computeStatistics(statsData, referenceData.trackersInfo,
                                           referenceData.companiesInfo) >>
    /\ UNCHANGED <<referenceData, statsData, detectedEnv>>
    /\ UNCHANGED <<avgVars, reportVars, laterVars>>

\* determineTestEnvironment(statsData)
DetermineTestEnvironment ==
    /\ detectedEnv = <<>>
    /\ detectedEnv' = << determineTestEnvironment(statsData) >>
    /\ UNCHANGED <<referenceData, statsData, statsResult>>
    /\ UNCHANGED <<avgVars, reportVars, laterVars>>

\* transformReportResultForTreemap of the report application

\* the values of VisualizationType, and a value outside the enum
VisualizationTypes == { "trackersWebsite", "etldPlus1Websites",
                        "companiesWebsites", "hostnames" }

\* the thresholds the application may pass, 0 being the default
Thresholds == { 0, 1, 2 }

\* getRawDataForVisualizationType(report, type): [threw, value]
getRawDataForVisualizationType(report, type) ==
    CASE type = "trackersWebsite" ->
            [ threw |-> FALSE, value |-> report.trackersWebsitesData ]
      [] type = "etldPlus1Websites" ->
            [ threw |-> FALSE, value |-> report.etldPlus1WebsitesData ]
      [] type = "companiesWebsites" ->
            [ threw |-> FALSE, value |-> report.companiesWebsitesData ]
      [] OTHER -> [ threw |-> TRUE, value |-> EmptyMap ]

\* a filter with >= in the place of >
ReachesThreshold(value, minWebsitesThreshold) == value >= minWebsitesThreshold

\* the filter of transformReportResultForTreemap: item.value > threshold
PassesThreshold(value, minWebsitesThreshold) == value > minWebsitesThreshold

\* Object.entries(rawData).map(...).filter(...).sort((a, b) => b.value -
\* a.value): the items over the threshold by non-increasing value; items of
\* equal value keep the key order of the object, which the maps of the model
\* do not carry, so every order of them is a result
SortedItems(rawData, minWebsitesThreshold) ==
    LET names == { k \in DOMAIN rawData :
                     PassesThreshold(rawData[k], minWebsitesThreshold) }
        n == Cardinality(names)
        orders == { f \in [ 1..n -> names ] :
                      \A i, j \in 1..n :
                          i < j => /\ f[i] # f[j]
                                   /\ rawData[f[i]] >= rawData[f[j]] }
    IN  { [ i \in 1..n |-> [ name |-> f[i], value |-> rawData[f[i]] ] ] :
            f \in orders }

\* createHierarchicalStructure(items)
createHierarchicalStructure(items) == [ name |-> "root", children |-> items ]

\* transformReportResultForTreemap(reportResult, visualizationType,
\* minWebsitesThreshold): the results it may return, as [threw, value]
transformReportResultForTreemap(reportResult, visualizationType, minWebsitesThreshold) ==
    LET rawData == getRawDataForVisualizationType(reportResult, visualizationType)
    IN  IF rawData.threw THEN { [ threw |-> TRUE, value |-> <<>> ] }
        ELSE { [ threw |-> FALSE, value |-> createHierarchicalStructure(items) ] :
                 items \in SortedItems(rawData.value, minWebsitesThreshold) }

\* the application draws the treemap of a ReportResult
TransformReportResultForTreemap ==
    /\ statsResult # <<>>
    /\ treemap = <<>>
    /\ \E type \in VisualizationTypes, threshold \in Thresholds :
          /\ treemapType' = type
          /\ treemapThreshold' = threshold
          /\ \E r \in transformReportResultForTreemap(statsResult[1], type,
                                                      threshold) :
                treemap' = << r >>
    /\ UNCHANGED <<avgVars, reportVars, statsVars, urlVars, syncVars, moreVars>>

StatsInit ==
    /\ statsData \in StatsDataChoices
    /\ referenceData \in ReferenceChoices
    /\ statsResult = <<>>
    /\ detectedEnv = <<>>
    /\ AvgIdle
    /\ ReportIdle
    /\ UrlIdle
    /\ treemapType = ""
    /\ treemapThreshold = 0
    /\ treemap = <<>>
    /\ SyncIdle
    /\ MoreIdle

StatsNext ==
    \/ ComputeStatistics
    \/ DetermineTestEnvironment
    \/ TransformReportResultForTreemap

\* the aggregator on every MetricsData of at most MaxSites domains
SpecStats == StatsInit /\ [][StatsNext]_vars

-----------------------------------------------------------------------------
(* Properties of the averager *)

\* the runs that define a value
DefinedRuns(values) == { i \in DOMAIN values : values[i] # Undefined }

RECURSIVE SumAt(_, _)
SumAt(values, I) ==
    IF I = {} THEN 0
    ELSE LET i == CHOOSE j \in I : TRUE
         IN  values[i] + SumAt(values, I \ {i})

\* r is sum / n rounded to the nearest hundredth
IsRoundedMean(r, sum, n) == 2 * Abs(r * n - sum) <= n

\* r is the mean of the defined values, rounded, and 0 when there is none
IsMeanOfDefined(r, values) ==
    LET D == DefinedRuns(values)
    IN  IF D = {} THEN r = 0
        ELSE IsRoundedMean(r, SumAt(values, D), Cardinality(D))

Averaged == averagedMetrics[1]

\* C1: computeAverageMetrics called with an empty sequence of runs throws and
\* returns no Metrics record.
C1_EmptyThrows ==
    (avgPc # "idle" /\ metricsArray = <<>>)
        => (avgPc = "threw" /\ averagedMetrics = <<>>)

C1_Witness == avgPc = "threw" /\ metricsArray = <<>> /\ averagedMetrics = <<>>

\* C2: for a non-empty sequence of runs, each scalar field of the result is
\* the mean, rounded to 2 decimals, of the field over the runs that define
\* it, and 0 when no run defines it.
C2_ScalarMeans ==
    (avgPc = "returned") =>
        /\ Len(metricsArray) > 0
        /\ IsMeanOfDefined(Averaged.loadTimeMs, Selected(metricsArray, "loadTimeMs"))
        /\ IsMeanOfDefined(Averaged.domContentLoadTimeMs,
                           Selected(metricsArray, "domContentLoadTimeMs"))
        /\ \A f \in {"totalBytes", "thirdPartyBytes"} :
              IsMeanOfDefined(Averaged.weight[f], SelectedIn(metricsArray, "weight", f))
        /\ \A f \in {"totalRequests", "blockedRequests", "notBlockedRequests",
                     "thirdPartyRequests", "thirdPartyBlockedRequests",
                     "thirdPartyNotBlockedRequests"} :
              IsMeanOfDefined(Averaged.requests[f],
                              SelectedIn(metricsArray, "requests", f))

\* three runs, none defines loadTimeMs (the result is 0), exactly one defines
\* domContentLoadTimeMs (the result is that value, not a third of it)
C2_Witness ==
    /\ avgPc = "returned"
    /\ Len(metricsArray) = 3
    /\ DefinedRuns(Selected(metricsArray, "loadTimeMs")) = {}
    /\ Cardinality(DefinedRuns(Selected(metricsArray, "domContentLoadTimeMs"))) = 1
    /\ Averaged.loadTimeMs = 0
    /\ Averaged.domContentLoadTimeMs = Num(100)

\* the sum of a key's values over the runs, a run without the key counting 0
KeyTotal(array, field, key) ==
    SumAt([i \in 1..Len(array) |->
              IF key \in DOMAIN array[i].requests[field]
              THEN array[i].requests[field][key] ELSE 0],
          1..Len(array))

MapFields == {"hostnames", "etldPlus1s"}

\* C3: for every key of the union of the runs' hostnames (etldPlus1s) maps,
\* the value computed for the key is the sum of its values over all N runs
\* (absent counting 0) divided by N, rounded to 2 decimals.
C3_KeyMeansOverAllRuns ==
    (avgPc = "returned") =>
        \A f \in MapFields : \A key \in collectUniqueKeys(metricsArray, f) :
            LET computed == IF key \in DOMAIN Averaged.requests[f]
                            THEN Averaged.requests[f][key] ELSE 0
            IN  IsRoundedMean(computed, KeyTotal(metricsArray, f, key),
                              Len(metricsArray))

\* a key present in only 1 of 3 runs, with value 3, has the average 1.0
C3_Witness ==
    /\ avgPc = "returned"
    /\ Len(metricsArray) = 3
    /\ \E key \in collectUniqueKeys(metricsArray, "hostnames") :
          /\ RunsWithKey(metricsArray, "hostnames", key) = 1
          /\ KeyTotal(metricsArray, "hostnames", key) = Num(3)
          /\ key \in DOMAIN Averaged.requests.hostnames
          /\ Averaged.requests.hostnames[key] = Num(1)

C5_Idempotent ==
    (reaveraged # <<>>) => (reaveraged = averagedMetrics)

\* the re-averaged record came from three runs, one without loadTimeMs, and
\* has fractional averages
C5_Witness ==
    /\ reaveraged # <<>>
    /\ Len(metricsArray) = 3
    /\ DefinedRuns(Selected(metricsArray, "loadTimeMs")) # 1..3
    /\ Averaged.requests.totalRequests % Scale # 0
    /\ \E key \in DOMAIN Averaged.requests.hostnames :
          Averaged.requests.hostnames[key] % Scale # 0

\* the Metrics invariant of the data model, on the request counts r
MetricsInvariant(r) ==
    /\ r.blockedRequests + r.notBlockedRequests = r.totalRequests
    /\ r.thirdPartyBlockedRequests + r.thirdPartyNotBlockedRequests
          = r.thirdPartyRequests
    /\ r.thirdPartyRequests <= r.totalRequests

\* the invariant up to the rounding of each average: the sums are within one
\* hundredth
MetricsInvariantRounded(r) ==
    /\ Abs(r.blockedRequests + r.notBlockedRequests - r.totalRequests) <= 1
    /\ Abs(r.thirdPartyBlockedRequests + r.thirdPartyNotBlockedRequests
              - r.thirdPartyRequests) <= 1
    /\ r.thirdPartyRequests <= r.totalRequests

RunsSatisfyInvariant ==
    \A i \in 1..Len(metricsArray) : MetricsInvariant(metricsArray[i].requests)

\* C6 as stated: when every run satisfies the Metrics invariant, so does the
\* averaged record.
C6_InvariantSurvives ==
    (avgPc = "returned" /\ RunsSatisfyInvariant)
        => MetricsInvariant(Averaged.requests)

\* C6 amended: when every run satisfies the Metrics invariant, the averaged
\* record satisfies thirdPartyRequests <= totalRequests, and its two sums
\* hold to within 0.01, the rounding of the averages.
C6_InvariantUpToRounding ==
    (avgPc = "returned" /\ RunsSatisfyInvariant)
        => MetricsInvariantRounded(Averaged.requests)

\* three runs that satisfy the invariant, and an average that does not
C6_Witness ==
    /\ avgPc = "returned"
    /\ Len(metricsArray) = 3
    /\ RunsSatisfyInvariant
    /\ Averaged.requests.blockedRequests + Averaged.requests.notBlockedRequests
          # Averaged.requests.totalRequests

-----------------------------------------------------------------------------
(* Properties of report generation *)

\* findCommonDomains has returned
CommonDomainsFound == pc \in {"results", "done"}

\* the mean of totalRequests over the entries is at least the threshold
MeanReachesThreshold(entries) ==
    /\ Len(entries) > 0
    /\ SumAt([i \in 1..Len(entries) |-> entries[i].requests.totalRequests],
             1..Len(entries))
          >= Num(MIN_REQUESTS_THRESHOLD) * Len(entries)

MeanOfTotalRequests(entries, mean) ==
    /\ Len(entries) > 0
    /\ SumAt([i \in 1..Len(entries) |-> entries[i].requests.totalRequests],
             1..Len(entries)) = Num(mean) * Len(entries)

\* the domain is present in every loaded set and reaches the threshold in each
ReliableEverywhere(domain) ==
    \A i \in 1..Len(allData) :
        /\ domain \in Keys(allData[i])
        /\ MeanReachesThreshold(EntriesOf(allData[i], domain))

\* C7: findCommonDomains returns exactly the domains that are present in
\* every input set with a mean totalRequests of at least 20 in each.
C7_CommonDomainsExact ==
    CommonDomainsFound =>
        commonDomains
            = { d \in UNION { Keys(allData[i]) : i \in 1..Len(allData) } :
                  ReliableEverywhere(d) }

\* two sets: a.com averages exactly 20 in both (once as the mean of 15 and
\* 25) and is included, b.com averages 15 in one of them and is excluded
C7_Witness ==
    /\ CommonDomainsFound
    /\ Len(allData) = 2
    /\ commonDomains = {"a.com"}
    /\ \A i \in 1..2 : {"a.com", "b.com"} \subseteq Keys(allData[i])
    /\ \A i \in 1..2 : MeanOfTotalRequests(EntriesOf(allData[i], "a.com"), 20)
    /\ Len(EntriesOf(allData[1], "a.com")) = 2
    /\ \E i \in 1..2 : MeanOfTotalRequests(EntriesOf(allData[i], "b.com"), 15)

\* C8: report generation exits whenever the common-domain intersection is
\* empty; generateReportResults and buildApp are never reached with an empty
\* common-domain set.
C8_EmptyIntersectionExits ==
    /\ CommonDomainsFound => commonDomains # {}
    /\ (built # <<>>) => commonDomains # {}

\* the position of a domain among the keys of a data set
KeyIndex(data, domain) == CHOOSE i \in 1..Len(data) : data[i].domain = domain

\* filtered is data projected on the domains of common
IsProjection(filtered, data, common) ==
    /\ Keys(filtered) = Keys(data) \cap common
    /\ Len(filtered) = Cardinality(Keys(filtered))
    /\ \A d \in Keys(filtered) : EntriesOf(filtered, d) = EntriesOf(data, d)
    /\ \A d1, d2 \in Keys(filtered) :
          (KeyIndex(filtered, d1) < KeyIndex(filtered, d2))
              <=> (KeyIndex(data, d1) < KeyIndex(data, d2))

\* C9: filterDataByCommonDomains returns exactly the domains of its data that
\* are in the common set, each with the same entries, in the order of the
\* input, and leaves the data and the common set unchanged.
C9_FilterIsPureProjection ==
    \A i \in 1..Len(filterArgs) :
        /\ IsProjection(filterArgs[i].filteredData, filterArgs[i].data,
                        filterArgs[i].commonDomains)
        /\ allData[i] = filterArgs[i].data
        /\ commonDomains = filterArgs[i].commonDomains

\* a call that drops the first domain of its data and keeps the second, with
\* its two entries
C9_Witness ==
    \E i \in 1..Len(filterArgs) :
        /\ Len(filterArgs[i].data) = 2
        /\ Len(filterArgs[i].filteredData) = 1
        /\ filterArgs[i].filteredData[1] = filterArgs[i].data[2]
        /\ Len(filterArgs[i].filteredData[1].entries) = 2

\* C10: every ReportResult of the map is computed over the common-domain
\* set: the keys of its domainsData are the common domains and its siteCount
\* is their number.
C10_SameDomainSet ==
    \A name \in DOMAIN reportResultsMap :
        /\ Keys(reportResultsMap[name].domainsData) = commonDomains
        /\ reportResultsMap[name].siteCount = Cardinality(commonDomains)

\* two files with different domains, two results over the one common domain
C10_Witness ==
    /\ pc = "done"
    /\ Cardinality(DOMAIN reportResultsMap) = 2
    /\ Keys(allData[1]) # Keys(allData[2])
    /\ Cardinality(commonDomains) = 1
    /\ \A name \in DOMAIN reportResultsMap : reportResultsMap[name].siteCount = 1
-----------------------------------------------------------------------------
(* Properties of computeStatistics *)

\* every entry of every domain of data, in order
RECURSIVE AllEntries(_)
AllEntries(data) ==
    IF data = <<>> THEN <<>> ELSE Head(data).entries \o AllEntries(Tail(data))

\* a field that is missing counts for 0
Contribution(x) == IF x = Undefined THEN 0 ELSE x

\* the sums of the fields of the entries of data
SumOfBytes(data) ==
    LET es == AllEntries(data)
    IN  SeqSum([ i \in 1..Len(es) |-> Contribution(es[i].weight.totalBytes) ])

SumOfLoadTime(data) ==
    LET es == AllEntries(data)
    IN  SeqSum([ i \in 1..Len(es) |-> Contribution(es[i].loadTimeMs) ])

SumOfRequests(data) ==
    LET es == AllEntries(data)
    IN  SeqSum([ i \in 1..Len(es) |-> Contribution(es[i].requests.totalRequests) ])

SumOfThirdPartyRequests(data) ==
    LET es == AllEntries(data)
    IN  SeqSum([ i \in 1..Len(es) |->
                   Contribution(es[i].requests.thirdPartyRequests) ])

SumOfBlockedRequests(data) ==
    LET es == AllEntries(data)
    IN  SeqSum([ i \in 1..Len(es) |->
                   Contribution(es[i].requests.blockedRequests) ])

SumOfHostnames(data) ==
    LET es == AllEntries(data)
    IN  SeqSum([ i \in 1..Len(es) |-> Cardinality(DOMAIN es[i].requests.hostnames) ])

SumOfEtldPlus1s(data) ==
    LET es == AllEntries(data)
    IN  SeqSum([ i \in 1..Len(es) |-> Cardinality(DOMAIN es[i].requests.etldPlus1s) ])

\* r is a whole number nearest to x
IsNearestInteger(r, x) == r % Scale = 0 /\ 2 * Abs(r - x) <= Scale

\* the fraction q is a / b
IsQuotient(q, a, b) == b # 0 /\ q.den # 0 /\ q.num * b = a * q.den

\* the MetricsData of the test "should calculate basic statistics correctly"
TestData ==
    << [ domain |-> "example.com", entries |-> << ShopEntry("example.com") >> ],
       [ domain |-> "test.com", entries |-> << NewsEntry("test.com") >> ] >>

\* C11: the totals of computeStatistics are sums over every entry of every
\* domain, a missing field counting for 0: totalBytes and totalLoadTime are
\* the exact sums, totalRequests, totalThirdPartyRequests and
\* totalBlockedRequests are the sums rounded to the nearest integer.
C11_TotalsAreSums ==
    statsResult # <<>> =>
        LET r == statsResult[1]
        IN  /\ r.totalBytes = SumOfBytes(statsData)
            /\ r.totalLoadTime = SumOfLoadTime(statsData)
            /\ IsNearestInteger(r.totalRequests, SumOfRequests(statsData))
            /\ IsNearestInteger(r.totalThirdPartyRequests,
                                SumOfThirdPartyRequests(statsData))
            /\ IsNearestInteger(r.totalBlockedRequests,
                                SumOfBlockedRequests(statsData))

\* the two domains of the test: totalRequests 20 and 10 give 30,
\* blockedRequests 5 and 2 give 7
C11_Witness ==
    /\ statsData = TestData
    /\ statsResult # <<>>
    /\ statsResult[1].totalRequests = Num(30)
    /\ statsResult[1].totalBlockedRequests = Num(7)
    /\ statsResult[1].totalBytes = Num(2500)

\* C12 as stated: siteCount is the number of domain keys and each average
\* is the total field of the same ReportResult divided by siteCount.
C12_AveragesOfResultTotals ==
    (statsResult # <<>> /\ statsData # <<>>) =>
        LET r == statsResult[1]
        IN  /\ r.siteCount = Len(statsData)
            /\ IsQuotient(r.averageRequests, r.totalRequests, r.siteCount)
            /\ IsQuotient(r.averageThirdPartyRequests,
                          r.totalThirdPartyRequests, r.siteCount)
            /\ IsQuotient(r.averageBlockedRequests,
                          r.totalBlockedRequests, r.siteCount)
            /\ IsQuotient(r.averageBytes, r.totalBytes, r.siteCount)
            /\ IsQuotient(r.averageLoadTime, r.totalLoadTime, r.siteCount)
            /\ IsQuotient(r.averageHostnames, r.totalHostnames, r.siteCount)
            /\ IsQuotient(r.averageEtldPlus1s, r.totalEtldPlus1s, r.siteCount)

\* the fraction q is within half a unit over b of a / b
IsNearQuotient(q, a, b) ==
    b # 0 /\ q.den # 0 /\ 2 * Abs(q.num * b - a * q.den) <= Scale * q.den

\* C12, amended: for every non-empty MetricsData siteCount is the number of
\* domain keys; averageBytes, averageLoadTime, averageHostnames and
\* averageEtldPlus1s are the total field of the same ReportResult divided by
\* siteCount; averageRequests, averageThirdPartyRequests and
\* averageBlockedRequests are the unrounded sums of the entries divided by
\* siteCount, so they are within 0.5 / siteCount of the rounded total field
\* divided by siteCount.
C12_AveragesOfSums ==
    (statsResult # <<>> /\ statsData # <<>>) =>
        LET r == statsResult[1]
        IN  /\ r.siteCount = Len(statsData)
            /\ r.siteCount = Cardinality({ statsData[i].domain :
                                             i \in 1..Len(statsData) })
            /\ IsQuotient(r.averageBytes, r.totalBytes, r.siteCount)
            /\ IsQuotient(r.averageLoadTime, r.totalLoadTime, r.siteCount)
            /\ IsQuotient(r.averageHostnames, r.totalHostnames, r.siteCount)
            /\ IsQuotient(r.averageEtldPlus1s, r.totalEtldPlus1s, r.siteCount)
            /\ IsQuotient(r.averageRequests, SumOfRequests(statsData),
                          r.siteCount)
            /\ IsQuotient(r.averageThirdPartyRequests,
                          SumOfThirdPartyRequests(statsData), r.siteCount)
            /\ IsQuotient(r.averageBlockedRequests,
                          SumOfBlockedRequests(statsData), r.siteCount)
            /\ IsNearQuotient(r.averageRequests, r.totalRequests, r.siteCount)
            /\ IsNearQuotient(r.averageThirdPartyRequests,
                              r.totalThirdPartyRequests, r.siteCount)
            /\ IsNearQuotient(r.averageBlockedRequests,
                              r.totalBlockedRequests, r.siteCount)

\* one domain with two entries whose requests sum to 40.33: siteCount 1,
\* totalRequests 40, averageRequests 40.33
C12_Witness ==
    /\ statsResult # <<>>
    /\ Len(statsData) = 1
    /\ Len(statsData[1].entries) = 2
    /\ statsResult[1].siteCount = 1
    /\ statsResult[1].totalRequests = Num(40)
    /\ statsResult[1].averageRequests = Divide(Num(40) + 33, 1)

\* C13: computeStatistics of an empty MetricsData returns a ReportResult of
\* siteCount 0, every total 0 and empty etldPlus1WebsitesData,
\* companiesWebsitesData and trackersWebsitesData.
C13_EmptyDataGivesZeros ==
    (statsResult # <<>> /\ statsData = <<>>) =>
        LET r == statsResult[1]
        IN  /\ r.siteCount = 0
            /\ r.totalLoadTime = 0
            /\ r.totalBytes = 0
            /\ r.totalRequests = 0
            /\ r.totalThirdPartyRequests = 0
            /\ r.totalBlockedRequests = 0
            /\ r.totalHostnames = 0
            /\ r.totalEtldPlus1s = 0
            /\ r.etldPlus1WebsitesData = EmptyMap
            /\ r.companiesWebsitesData = EmptyMap
            /\ r.trackersWebsitesData = EmptyMap

\* the result of an empty MetricsData: its averages are 0 / 0
C13_Witness ==
    /\ statsData = <<>>
    /\ statsResult # <<>>
    /\ statsResult[1].siteCount = 0
    /\ IsNaN(statsResult[1].averageRequests)
\* the registrable domains of the hostnames of the model
AllEtldPlus1s ==
    { RegistrableDomains[h][1] :
        h \in { k \in DOMAIN RegistrableDomains : RegistrableDomains[k] # <<>> } }

\* the domains of data that have, in some entry, a hostname of registrable
\* domain e with a positive request count
DomainsReaching(data, e) ==
    { data[i].domain :
        i \in { k \in 1..Len(data) :
                  \E j \in 1..Len(data[k].entries) :
                      \E h \in DOMAIN data[k].entries[j].requests.hostnames :
                          /\ getDomain(h) = << e >>
                          /\ data[k].entries[j].requests.hostnames[h] > 0 } }

HostnamesOf(site) ==
    UNION { DOMAIN site.entries[j].requests.hostnames :
              j \in 1..Len(site.entries) }

\* the names of the trackers of TrackersData.trackers
TrackerNames(trackersInfo) ==
    { trackersInfo.trackers[id].name : id \in DOMAIN trackersInfo.trackers }

\* key has an entry in trackerDomains whose tracker id exists in trackers
Resolves(key, trackersInfo) ==
    /\ key \in DOMAIN trackersInfo.trackerDomains
    /\ trackersInfo.trackerDomains[key] \in DOMAIN trackersInfo.trackers

TrackerOf(key, trackersInfo) ==
    trackersInfo.trackers[trackersInfo.trackerDomains[key]]

\* exact-then-fallback: <<name>> of the tracker a hostname is attributed to,
\* <<>> when neither lookup resolves
AttributedTracker(hostname, trackersInfo) ==
    IF Resolves(hostname, trackersInfo)
        THEN << TrackerOf(hostname, trackersInfo).name >>
    ELSE IF getDomain(hostname) # <<>>
            /\ Resolves(getDomain(hostname)[1], trackersInfo)
        THEN << TrackerOf(getDomain(hostname)[1], trackersInfo).name >>
    ELSE <<>>

\* the domains of data with a hostname attributed to the tracker name
DomainsOfTracker(data, name, trackersInfo) ==
    { data[i].domain :
        i \in { k \in 1..Len(data) :
                  \E h \in HostnamesOf(data[k]) :
                      AttributedTracker(h, trackersInfo) = << name >> } }

\* C15: tracker resolution is exact-then-fallback: the reach of every tracker
\* of the table counts the domains with a hostname that resolves to it by its
\* own entry of trackerDomains, or, when that lookup fails (no entry, or an id
\* missing from trackers), by the entry of its eTLD+1.
C15_ExactThenFallback ==
    statsResult # <<>> =>
        \A name \in TrackerNames(referenceData.trackersInfo) :
            LET reach == statsResult[1].trackersWebsitesData
                sites == DomainsOfTracker(statsData, name,
                                          referenceData.trackersInfo)
            IN  IF sites = {} THEN name \notin DOMAIN reach
                ELSE name \in DOMAIN reach /\ reach[name] = Cardinality(sites)

\* px.analytics.com has its own tracker (Pixel) though analytics.com is the
\* tracker Analytics; api.analytics.com has no entry and old.analytics.com an
\* unknown id, both fall back to Analytics
C15_Witness ==
    /\ statsResult # <<>>
    /\ Len(statsData) = 2
    /\ HostnamesOf(statsData[1]) = { "px.analytics.com", "api.analytics.com" }
    /\ HostnamesOf(statsData[2]) = { "10.0.0.1", "old.analytics.com" }
    /\ statsResult[1].trackersWebsitesData["Pixel"] = 1
    /\ statsResult[1].trackersWebsitesData["Analytics"] = 2

\* C16: a hostname that resolves to a known tracker by neither lookup,
\* including one with no registrable domain, adds nothing to
\* trackersWebsitesData: every key of the map is the name of a tracker of
\* TrackersData.trackers.
C16_UnresolvedHostnamesSkipped ==
    statsResult # <<>> =>
        DOMAIN statsResult[1].trackersWebsitesData
            \subseteq TrackerNames(referenceData.trackersInfo)

\* the names of the companies of CompaniesData.companies
CompanyNames(companiesInfo) ==
    { companiesInfo.companies[id].name : id \in DOMAIN companiesInfo.companies }

\* C17: a hostname is attributed in companiesWebsitesData only to a company
\* of CompaniesData.companies (the company of the resolved tracker, else the
\* company whose id is the first label of the eTLD+1, else nothing): every
\* key of the map is the name of a company of the table.
C17_OnlyKnownCompanies ==
    statsResult # <<>> =>
        DOMAIN statsResult[1].companiesWebsitesData
            \subseteq CompanyNames(referenceData.companiesInfo)
-----------------------------------------------------------------------------
(* Properties of the environment detection and of the results map *)

\* the environment of a first entry: the known names stand for themselves,
\* no testEnv is baseline, any other string is none
EnvironmentNamed(testEnv) ==
    CASE testEnv = "" -> "baseline"
      [] testEnv = "baseline" -> "baseline"
      [] testEnv = "dns" -> "dns"
      [] testEnv = "extension" -> "extension"
      [] OTHER -> "none"

\* the environment read off the first entry of the first domain of data
EnvironmentOfData(data) ==
    IF data = <<>> THEN "baseline"
    ELSE IF data[1].entries = <<>> THEN "baseline"
    ELSE EnvironmentNamed(data[1].entries[1].testEnv)

\* C18: determineTestEnvironment returns baseline when the data has no
\* domains, or the first domain has no first entry, or that entry has no
\* testEnv; otherwise baseline, dns or extension when the first entry's
\* testEnv is that string, and none for any other string.
C18_EnvironmentDetection ==
    detectedEnv # <<>> =>
        /\ detectedEnv[1] = EnvironmentOfData(statsData)
        /\ detectedEnv[1] \in { "baseline", "dns", "extension", "none" }
        /\ (statsData = <<>>) => detectedEnv[1] = "baseline"

\* a first domain whose entry has an unknown testEnv, before a domain
\* measured with dns: none
C18_Witness ==
    /\ detectedEnv = << "none" >>
    /\ Len(statsData) = 2
    /\ statsData[1].entries = << OddEntry("example.com") >>
    /\ statsData[2].entries = << AveragedEntry("test.com") >>

\* C19: generateReportResults returns one ReportResult per input file, keyed
\* by the base name of the file: the map has as many entries as there are
\* input files, and the entry under the base name of a file was computed from
\* the data of that file.
C19_OneResultPerFile ==
    pc = "done" =>
        /\ Cardinality(DOMAIN reportResultsMap) = Len(inputFiles)
        /\ \A i \in 1..Len(inputFiles) :
              /\ basename(inputFiles[i]) \in DOMAIN reportResultsMap
              /\ reportResultsMap[basename(inputFiles[i])] = filterArgs[i].result

\* C20: the type of the ReportResult of an input file is the environment of
\* the first entry of the first domain of that file, with the baseline and
\* none defaults.
C20_TypeOfInputFile ==
    \A i \in 1..Len(filterArgs) :
        filterArgs[i].result.type = EnvironmentOfData(filterArgs[i].data)
-----------------------------------------------------------------------------
(* Properties of the failure of an input file *)

\* the positions of the input files that cannot be read or parsed
UnreadableFiles == { i \in 1..Len(inputFiles) : ~disk[inputFiles[i]].readable }

\* the first of them
FirstUnreadable == CHOOSE i \in UnreadableFiles : \A j \in UnreadableFiles : i <= j

\* no common-domain set computed, no statistics aggregated, no report built
NothingProduced ==
    /\ commonDomains = {}
    /\ filterArgs = <<>>
    /\ reportResultsMap = EmptyMap
    /\ built = <<>>

\* C21: if an input file cannot be read or parsed, the run ends at that file:
\* the files before it are the only ones loaded, the step that reaches it
\* exits the process, and neither before nor after the exit is a
\* common-domain set computed, a statistic aggregated or a report built.
C21_UnreadableFileIsFatal ==
    /\ [](UnreadableFiles # {} =>
            /\ pc \in { "load", "exit" }
            /\ Len(allData) < FirstUnreadable
            /\ pc = "exit" => Len(allData) = FirstUnreadable - 1
            /\ NothingProduced)
    /\ [][(UnreadableFiles # {} /\ pc = "load"
              /\ Len(allData) = FirstUnreadable - 1) => pc' = "exit"]_vars

\* two input files, the first loaded, the second unreadable: the process has
\* exited with nothing produced
C21_Witness ==
    /\ Len(inputFiles) = 2
    /\ disk[inputFiles[1]].readable
    /\ ~disk[inputFiles[2]].readable
    /\ pc = "exit"
    /\ Len(allData) = 1
    /\ NothingProduced
-----------------------------------------------------------------------------
(* isThirdParty(mainUrl, requestUrl) of utils/url *)

\* the public suffixes of the model, as sequences of labels
PublicSuffixes == { << "com" >>, << "org" >>, << "uk" >>, << "co", "uk" >> }

\* the last n labels of a host
LastLabels(host, n) == SubSeq(host, Len(host) - n + 1, Len(host))

\* the number of labels of the public suffix of a host: the longest suffix
\* of the list, the last label when none is listed
PublicSuffixLength(host) ==
    LET listed == { n \in 1..Len(host) : LastLabels(host, n) \in PublicSuffixes }
    IN  IF listed = {} THEN 1
        ELSE CHOOSE n \in listed : \A m \in listed : m <= n

\* tldts.getDomain(url): the public suffix and the label before it, <<>>
\* (null) for an IP address and for a host that is a public suffix
getDomainOfUrl(url) ==
    IF url.isIp THEN <<>>
    ELSE IF Len(url.host) <= PublicSuffixLength(url.host) THEN <<>>
    ELSE << LastLabels(url.host, PublicSuffixLength(url.host) + 1) >>

\* a comparison of the hosts instead of the registrable domains
isThirdPartyByHost(mainUrl, requestUrl) == mainUrl.host # requestUrl.host

\* isThirdParty(mainUrl, requestUrl): mainOrigin !== requestOrigin
isThirdParty(mainUrl, requestUrl) ==
    getDomainOfUrl(mainUrl) # getDomainOfUrl(requestUrl)

Url(host, isIp, path) ==
    [ protocol |-> "https", host |-> host, isIp |-> isIp, path |-> path ]

\* the URLs of the tests and of the documentation of isThirdParty, hosts
\* under a two-label public suffix, an IP address and a single-label host
Urls ==
    { Url(<< "example", "com" >>, FALSE, ""),
      Url(<< "example", "org" >>, FALSE, ""),
      Url(<< "test", "example", "com" >>, FALSE, ""),
      Url(<< "api", "example", "com" >>, FALSE, "/data"),
      Url(<< "www", "mysite", "com" >>, FALSE, "/home"),
      Url(<< "images", "mysite", "com" >>, FALSE, "/banner.jpg"),
      Url(<< "example", "co", "uk" >>, FALSE, ""),
      Url(<< "cdn", "example", "co", "uk" >>, FALSE, ""),
      Url(<< "shop", "co", "uk" >>, FALSE, ""),
      Url(<< "10", "0", "0", "1" >>, TRUE, ""),
      Url(<< "localhost" >>, FALSE, "") }

\* isThirdParty(mainUrl, requestUrl)
IsThirdParty ==
    /\ thirdParty = <<>>
    /\ thirdParty' = << isThirdParty(urlMain, urlRequest) >>
    /\ UNCHANGED <<urlMain, urlRequest, thirdPartySwapped>>
    /\ UNCHANGED <<avgVars, reportVars, statsVars, treeVars, syncVars, moreVars>>

\* isThirdParty(requestUrl, mainUrl)
IsThirdPartySwapped ==
    /\ thirdPartySwapped = <<>>
    /\ thirdPartySwapped' = << isThirdParty(urlRequest, urlMain) >>
    /\ UNCHANGED <<urlMain, urlRequest, thirdParty>>
    /\ UNCHANGED <<avgVars, reportVars, statsVars, treeVars, syncVars, moreVars>>

UrlInit ==
    /\ urlMain \in Urls
    /\ urlRequest \in Urls
    /\ thirdParty = <<>>
    /\ thirdPartySwapped = <<>>
    /\ AvgIdle
    /\ ReportIdle
    /\ referenceData = <<>>
    /\ StatsIdle
    /\ TreeIdle
    /\ SyncIdle
    /\ MoreIdle

UrlNext == IsThirdParty \/ IsThirdPartySwapped

\* isThirdParty on every pair of URLs
SpecUrl == UrlInit /\ [][UrlNext]_vars

-----------------------------------------------------------------------------
(* Properties of isThirdParty *)

\* the host is the domain or one of its subdomains
IsUnderDomain(host, domain) ==
    /\ Len(host) >= Len(domain)
    /\ LastLabels(host, Len(domain)) = domain

\* C22: isThirdParty(mainUrl, requestUrl) is true exactly when the
\* registrable domains of the two URLs differ: a request to the registrable
\* domain of the page or to a subdomain of it is first-party, a request to
\* another registrable domain is third-party, and the answer is the same
\* with the two arguments exchanged.
C22_ThirdPartyByRegistrableDomain ==
    /\ thirdParty # <<>> =>
          /\ thirdParty[1] = (getDomainOfUrl(urlMain) # getDomainOfUrl(urlRequest))
          /\ (getDomainOfUrl(urlMain) # <<>> /\ ~urlRequest.isIp
                /\ IsUnderDomain(urlRequest.host, getDomainOfUrl(urlMain)[1]))
                => thirdParty[1] = FALSE
          /\ (getDomainOfUrl(urlMain) # <<>> /\ getDomainOfUrl(urlRequest) # <<>>
                /\ ~IsUnderDomain(urlRequest.host, getDomainOfUrl(urlMain)[1]))
                => thirdParty[1] = TRUE
    /\ (thirdParty # <<>> /\ thirdPartySwapped # <<>>)
          => thirdParty = thirdPartySwapped

\* a page of www.mysite.com requesting images.mysite.com: first-party, in
\* both orders
C22_Witness ==
    /\ urlMain.host = << "www", "mysite", "com" >>
    /\ urlRequest.host = << "images", "mysite", "com" >>
    /\ thirdParty = << FALSE >>
    /\ thirdPartySwapped = << FALSE >>
-----------------------------------------------------------------------------
(* Properties of the treemap of the report application *)

\* the entries of the reach map the visualization type selects
SelectedReach ==
    CASE treemapType = "trackersWebsite" -> statsResult[1].trackersWebsitesData
      [] treemapType = "etldPlus1Websites" -> statsResult[1].etldPlus1WebsitesData
      [] treemapType = "companiesWebsites" -> statsResult[1].companiesWebsitesData

\* C23: transformReportResultForTreemap returns a node named root whose
\* children are exactly the entries of the selected reach map with a value
\* strictly greater than minWebsitesThreshold, by non-increasing value; with
\* the default threshold 0 and a reach map of computeStatistics every entry
\* of the map is a child.
C23_TreemapChildren ==
    (treemap # <<>> /\ ~treemap[1].threw) =>
        LET node == treemap[1].value
            items == node.children
            reach == SelectedReach
        IN  /\ node.name = "root"
            /\ \A i \in 1..Len(items) :
                  /\ items[i].name \in DOMAIN reach
                  /\ items[i].value = reach[items[i].name]
                  /\ items[i].value > treemapThreshold
            /\ \A k \in DOMAIN reach :
                  reach[k] > treemapThreshold
                      => \E i \in 1..Len(items) : items[i].name = k
            /\ \A i, j \in 1..Len(items) :
                  i < j => /\ items[i].name # items[j].name
                           /\ items[i].value >= items[j].value
            /\ treemapThreshold = 0
                  => { items[i].name : i \in 1..Len(items) } = DOMAIN reach

\* a reach map with values 1 and 2 under threshold 1: the entry of value 1
\* is left out; the other entries are the children
C23_Witness ==
    /\ treemap # <<>>
    /\ ~treemap[1].threw
    /\ treemapType = "etldPlus1Websites"
    /\ treemapThreshold = 1
    /\ statsResult[1].etldPlus1WebsitesData =
          ( "example.com" :> 1 ) @@ ( "analytics.com" :> 2 ) @@ ( "test.com" :> 1 )
    /\ treemap[1].value.children = << [ name |-> "analytics.com", value |-> 2 ] >>
-----------------------------------------------------------------------------
(* The report sync script: main() of .github/scripts/sync-reports.js *)

\* a directory: whether it exists, and its entries by name
Directory(entries) == [ exists |-> TRUE, entries |-> entries ]
MissingDirectory == [ exists |-> FALSE, entries |-> EmptyMap ]

File(content) == [ kind |-> "file", content |-> content ]
Subdirectory == [ kind |-> "dir", content |-> "" ]

\* the names of the entries of the model and file.endsWith('.html')
HtmlNames == { "report_a.html", "report_b.html", "report_c.html",
               "index.html", "archive.html" }
OtherNames == { "notes.txt" }
EndsWithHtml(name) == name \in HtmlNames

\* files of the given names, each with a content made from the prefix
FilesNamed(names, prefix) == [ n \in names |-> File(prefix \o n) ]

\* the report directory before the run: missing, or any of the reports a, b
\* and a file index.html, possibly with a text file or a subdirectory named
\* as an HTML file
ReportDirChoices ==
    { MissingDirectory }
        \cup { Directory(FilesNamed(names, "report:")) :
                 names \in SUBSET { "report_a.html", "report_b.html", "index.html" } }
        \cup { Directory(FilesNamed({ "report_a.html", "notes.txt" }, "report:")),
               Directory(( "archive.html" :> Subdirectory )
                            @@ FilesNamed({ "report_a.html" }, "report:")) }

\* the docs directory before the run: missing, or the result of earlier runs
DocsDirChoices ==
    { MissingDirectory }
        \cup { Directory(FilesNamed(names, "docs:")) :
                 names \in SUBSET { "report_a.html", "report_c.html", "index.html" } }
        \cup { Directory(FilesNamed({ "report_c.html", "notes.txt" }, "docs:")),
               Directory(( "archive.html" :> Subdirectory )
                            @@ FilesNamed({ "report_c.html" }, "docs:")) }

\* fs.readdir(dir) filtered on .html
HtmlEntries(dir) == { n \in DOMAIN dir.entries : EndsWithHtml(n) }

\* the listing of the docs directory without index.html
DocsListing(dir) == { n \in HtmlEntries(dir) : n # "index.html" }

\* fs.mkdir(docsDir, {recursive: true}), then the two listings
SyncReadDirectories ==
    /\ syncPc = "start"
    /\ docsDir' = [ docsDir EXCEPT !.exists = TRUE ]
    /\ reportFiles' = IF reportDir.exists THEN HtmlEntries(reportDir) ELSE {}
    /\ syncPending' = DocsListing(docsDir)
    /\ syncPc' = "remove"
    /\ UNCHANGED <<reportDir, indexLinks>>
    /\ UNCHANGED <<avgVars, reportVars, statsVars, urlVars, treeVars, moreVars>>

\* one iteration of the loop over existingDocsFiles: fs.unlink of a file
\* that is not in the report directory, its error caught and logged
SyncRemoveOldFile ==
    /\ syncPc = "remove"
    /\ \E file \in syncPending :
          /\ syncPending' = syncPending \ { file }
          /\ docsDir' =
                IF file \notin reportFiles /\ docsDir.entries[file].kind = "file"
                    THEN [ docsDir EXCEPT
                             !.entries = [ n \in DOMAIN docsDir.entries \ { file }
                                             |-> docsDir.entries[n] ] ]
                    ELSE docsDir
    /\ UNCHANGED <<reportDir, reportFiles, syncPc, indexLinks>>
    /\ UNCHANGED <<avgVars, reportVars, statsVars, urlVars, treeVars, moreVars>>

\* the removal loop is over, the copy loop starts
SyncStartCopy ==
    /\ syncPc = "remove"
    /\ syncPending = {}
    /\ syncPending' = reportFiles
    /\ syncPc' = "copy"
    /\ UNCHANGED <<reportDir, docsDir, reportFiles, indexLinks>>
    /\ UNCHANGED <<avgVars, reportVars, statsVars, urlVars, treeVars, moreVars>>

\* fs.copyFile fails on a directory, as source or as destination
CopyFails(file) ==
    \/ reportDir.entries[file].kind = "dir"
    \/ file \in DOMAIN docsDir.entries /\ docsDir.entries[file].kind = "dir"

\* one iteration of the copy loop; an error reaches the catch of main:
\* process.exit(1)
SyncCopyFile ==
    /\ syncPc = "copy"
    /\ \E file \in syncPending :
          IF CopyFails(file)
              THEN /\ syncPc' = "exit"
                   /\ UNCHANGED <<docsDir, syncPending>>
              ELSE /\ docsDir' = [ docsDir EXCEPT
                                     !.entries = ( file :> reportDir.entries[file] )
                                                    @@ @ ]
                   /\ syncPending' = syncPending \ { file }
                   /\ UNCHANGED syncPc
    /\ UNCHANGED <<reportDir, reportFiles, indexLinks>>
    /\ UNCHANGED <<avgVars, reportVars, statsVars, urlVars, treeVars, moreVars>>

\* the listing of docs for the index page, then fs.writeFile(indexPath)
SyncWriteIndex ==
    /\ syncPc = "copy"
    /\ syncPending = {}
    /\ indexLinks' = DocsListing(docsDir)
    /\ docsDir' = [ docsDir EXCEPT
                      !.entries = ( "index.html" :> File("index") ) @@ @ ]
    /\ syncPc' = "done"
    /\ UNCHANGED <<reportDir, reportFiles, syncPending>>
    /\ UNCHANGED <<avgVars, reportVars, statsVars, urlVars, treeVars, moreVars>>

SyncInit ==
    /\ reportDir \in ReportDirChoices
    /\ docsDir \in DocsDirChoices
    /\ syncPc = "start"
    /\ reportFiles = {}
    /\ syncPending = {}
    /\ indexLinks = {}
    /\ AvgIdle
    /\ ReportIdle
    /\ referenceData = <<>>
    /\ StatsIdle
    /\ UrlIdle
    /\ TreeIdle
    /\ MoreIdle

SyncNext ==
    \/ SyncReadDirectories
    \/ SyncRemoveOldFile
    \/ SyncStartCopy
    \/ SyncCopyFile
    \/ SyncWriteIndex

\* one run of the sync script on every pair of directories
SpecSync == SyncInit /\ [][SyncNext]_vars

\* the .html files of a directory
HtmlFiles(dir) ==
    { n \in HtmlEntries(dir) : dir.entries[n].kind = "file" }

\* C24: after main() has completed, the .html files of docs other than the
\* generated index.html are the .html files of report: every HTML report of
\* report is in docs and every HTML file of docs that is not in report is
\* gone, whatever the two directories held before.
C24_DocsMirrorsReport ==
    syncPc = "done" =>
        /\ HtmlFiles(docsDir) \ { "index.html" } = HtmlFiles(reportDir)
        /\ \A n \in HtmlFiles(reportDir) :
              /\ n \in DOMAIN docsDir.entries
              /\ docsDir.entries[n] = reportDir.entries[n]

-----------------------------------------------------------------------------
(* collectStats(options) of PuppeteerRunner: the handlers of the CDP        *)
(* events and the loop that counts the collected requests                   *)

\* the requestId values of the CDP events
RequestIds == { "1000.1", "1000.2" }

\* options.url: the page under measurement
PageUrls == { Url(<< "www", "mysite", "com" >>, FALSE, "/home") }

\* the URL of a local.adguard.org resource and of an extension resource
AdGuardUrl ==
    Url(<< "local", "adguard", "org" >>, FALSE, "/inject.js")

ExtensionUrl ==
    [ Url(<< "bgnkhhnnamicmpeenaelnjfhikgbkllg" >>, FALSE, "/blocked.html")
        EXCEPT !.protocol = "chrome-extension" ]

\* request.url of requestWillBeSent: a first-party and a third-party URL, a
\* URL of an IP address, a URL whose host tldts rejects, a data: URI and an
\* extension URL
RequestUrls ==
    { Url(<< "images", "mysite", "com" >>, FALSE, "/banner.jpg"),
      Url(<< "cdn", "example", "co", "uk" >>, FALSE, "/ads.js"),
      Url(<< "10", "0", "0", "1" >>, TRUE, "/pixel.gif"),
      Url(<< >>, FALSE, "/x"),
      [ Url(<< >>, FALSE, "image/png;base64,AAAA") EXCEPT !.protocol = "data" ],
      ExtensionUrl }

\* requestUrl.startsWith(prefix), for the three prefixes collectStats tests
StartsWithData(url) == url.protocol = "data"

StartsWithChromeExtension(url) == url.protocol = "chrome-extension"

StartsWithLocalAdGuard(url) ==
    /\ url.protocol = "https"
    /\ url.host = << "local", "adguard", "org" >>

\* errorText of loadingFailed
ErrorTexts ==
    { "net::ERR_BLOCKED_BY_CLIENT", "net::ERR_ABORTED", "net::ERR_TIMED_OUT" }

\* encodedDataLength of loadingFinished
DataLengths == { 512 }

\* response.url and response.status of responseReceived for a request
Responses(entry) ==
    { [ url |-> entry.requestUrl, status |-> 200 ],
      [ url |-> entry.requestUrl, status |-> 204 ],
      [ url |-> entry.requestUrl, status |-> 500 ],
      [ url |-> AdGuardUrl, status |-> 200 ],
      [ url |-> ExtensionUrl, status |-> 200 ] }

\* the RequestInfo requestWillBeSent stores
NewRequestInfo(url, requestId, requestUrl) ==
    [ requestId |-> requestId,
      requestUrl |-> requestUrl,
      thirdParty |-> isThirdParty(url, requestUrl),
      responseUrl |-> <<>>,
      statusCode |-> Undefined,
      encodedDataLength |-> Undefined,
      errorText |-> "",
      failed |-> FALSE ]

SetRequest(map, requestId, entry) ==
    IF requestId \in DOMAIN map THEN [ map EXCEPT ![requestId] = entry ]
    ELSE map @@ (requestId :> entry)

\* const isBlocked = ...
isBlocked(entry) ==
    \/ entry.statusCode = 500
    \/ entry.errorText = "net::ERR_NAME_NOT_RESOLVED"
    \/ entry.errorText = "net::ERR_BLOCKED_BY_CLIENT"
    \/ entry.errorText = "net::ERR_CONNECTION_REFUSED"
    \/ entry.errorText = "net::ERR_UNSAFE_REDIRECT"
    \/ entry.errorText = "net::ERR_FAILED"

\* const isBlockedByExtension = ...
isBlockedByExtension(entry) ==
    \/ entry.statusCode = 204 /\ entry.errorText = "net::ERR_ABORTED"
    \/ entry.responseUrl # <<>> /\ StartsWithChromeExtension(entry.responseUrl[1])

\* entry.responseUrl?.startsWith('https://local.adguard.org/')
isAdGuardResource(entry) ==
    entry.responseUrl # <<>> /\ StartsWithLocalAdGuard(entry.responseUrl[1])

\* tldts.parse(requestUrl): the hostname and the registrable domain, each
\* <<>> for null
tldtsParse(requestUrl) ==
    [ hostname |-> IF requestUrl.host = <<>> THEN <<>> ELSE << requestUrl.host >>,
      domain |-> IF requestUrl.host = <<>> THEN <<>>
                 ELSE getDomainOfUrl(requestUrl) ]

\* map.set(key, (map.get(key) || 0) + 1)
IncrementKey(map, key) ==
    IF key \in DOMAIN map THEN [ map EXCEPT ![key] = @ + 1 ]
    ELSE map @@ (key :> 1)

\* the counters before the loop
ZeroCounts ==
    [ totalRequests |-> 0, blockedRequests |-> 0, notBlockedRequests |-> 0,
      thirdPartyRequests |-> 0, thirdPartyBlockedRequests |-> 0,
      thirdPartyNotBlockedRequests |-> 0, totalBytes |-> 0,
      thirdPartyBytes |-> 0, hostnames |-> EmptyMap, etldPlus1s |-> EmptyMap ]

ToInt(b) == IF b THEN 1 ELSE 0

\* the names counted for the blocked requests as well
CountNamesOfEveryRequest(c, entry, counted) ==
    LET res == tldtsParse(entry.requestUrl)
    IN  [ c EXCEPT
            !.hostnames = IF res.hostname # <<>>
                          THEN IncrementKey(@, res.hostname[1]) ELSE @,
            !.etldPlus1s = IF res.domain # <<>>
                           THEN IncrementKey(@, res.domain[1]) ELSE @ ]

\* the names a request adds to hostnames and etldPlus1s
CountNames(c, entry, counted) ==
    LET res == tldtsParse(entry.requestUrl)
    IN  [ c EXCEPT
            !.hostnames = IF counted /\ res.hostname # <<>>
                          THEN IncrementKey(@, res.hostname[1]) ELSE @,
            !.etldPlus1s = IF counted /\ res.domain # <<>>
                           THEN IncrementKey(@, res.domain[1]) ELSE @ ]

\* one iteration of the loop over requests.values()
CountEntry(c, entry) ==
    IF isAdGuardResource(entry) THEN c
    ELSE
        LET blocked == isBlocked(entry) \/ isBlockedByExtension(entry)
            encodedDataLength ==
                IF entry.encodedDataLength = Undefined THEN 0
                ELSE entry.encodedDataLength
            counted ==
                [ c EXCEPT
                    !.totalRequests = @ + 1,
                    !.thirdPartyRequests = @ + ToInt(entry.thirdParty),
                    !.totalBytes = @ + encodedDataLength,
                    !.thirdPartyBytes =
                        @ + (IF entry.thirdParty THEN encodedDataLength ELSE 0),
                    !.blockedRequests = @ + ToInt(blocked),
                    !.thirdPartyBlockedRequests =
                        @ + ToInt(blocked /\ entry.thirdParty),
                    !.notBlockedRequests = @ + ToInt(~blocked),
                    !.thirdPartyNotBlockedRequests =
                        @ + ToInt(~blocked /\ entry.thirdParty) ]
        IN  CountNames(counted, entry, ~blocked)

\* for (const entry of requests.values()): the totals do not depend on the
\* order of the iteration
RECURSIVE CountRequests(_, _, _)
CountRequests(c, map, ids) ==
    IF ids = {} THEN c
    ELSE LET id == CHOOSE i \in ids : TRUE
         IN  CountRequests(CountEntry(c, map[id]), map, ids \ { id })

\* the PuppeteerResults of the collected requests
PuppeteerResultsOf(map) ==
    LET c == CountRequests(ZeroCounts, map, DOMAIN map)
    IN  [ weight |-> [ totalBytes |-> c.totalBytes,
                       thirdPartyBytes |-> c.thirdPartyBytes ],
          requests |->
            [ totalRequests |-> c.totalRequests,
              blockedRequests |-> c.blockedRequests,
              notBlockedRequests |-> c.notBlockedRequests,
              thirdPartyRequests |-> c.thirdPartyRequests,
              thirdPartyBlockedRequests |-> c.thirdPartyBlockedRequests,
              thirdPartyNotBlockedRequests |-> c.thirdPartyNotBlockedRequests,
              hostnames |-> c.hostnames,
              etldPlus1s |-> c.etldPlus1s ] ]

\* client.on('Network.requestWillBeSent', ...)
RequestWillBeSent ==
    /\ collectPc = "listening"
    /\ \E requestId \in RequestIds, requestUrl \in RequestUrls :
          requests' =
            IF StartsWithData(requestUrl) \/ StartsWithChromeExtension(requestUrl)
            THEN requests
            ELSE SetRequest(requests, requestId,
                            NewRequestInfo(pageUrl, requestId, requestUrl))
    /\ UNCHANGED <<pageUrl, collectPc, puppeteerResults>>
    /\ UNCHANGED <<avgVars, reportVars, statsVars, urlVars, treeVars, syncVars, storeVars, domainsVars>>

\* client.on('Network.responseReceived', ...)
ResponseReceived ==
    /\ collectPc = "listening"
    /\ \E requestId \in RequestIds :
          IF requestId \notin DOMAIN requests THEN UNCHANGED requests
          ELSE \E response \in Responses(requests[requestId]) :
                  requests' = [ requests EXCEPT
                                  ![requestId].responseUrl = << response.url >>,
                                  ![requestId].statusCode = response.status ]
    /\ UNCHANGED <<pageUrl, collectPc, puppeteerResults>>
    /\ UNCHANGED <<avgVars, reportVars, statsVars, urlVars, treeVars, syncVars, storeVars, domainsVars>>

\* client.on('Network.loadingFinished', ...)
LoadingFinished ==
    /\ collectPc = "listening"
    /\ \E requestId \in RequestIds, encodedDataLength \in DataLengths :
          IF requestId \notin DOMAIN requests THEN UNCHANGED requests
          ELSE requests' = [ requests EXCEPT
                               ![requestId].encodedDataLength = encodedDataLength ]
    /\ UNCHANGED <<pageUrl, collectPc, puppeteerResults>>
    /\ UNCHANGED <<avgVars, reportVars, statsVars, urlVars, treeVars, syncVars, storeVars, domainsVars>>

\* client.on('Network.loadingFailed', ...)
LoadingFailed ==
    /\ collectPc = "listening"
    /\ \E requestId \in RequestIds, errorText \in ErrorTexts :
          IF requestId \notin DOMAIN requests THEN UNCHANGED requests
          ELSE requests' = [ requests EXCEPT
                               ![requestId].errorText = errorText,
                               ![requestId].failed = TRUE ]
    /\ UNCHANGED <<pageUrl, collectPc, puppeteerResults>>
    /\ UNCHANGED <<avgVars, reportVars, statsVars, urlVars, treeVars, syncVars, storeVars, domainsVars>>

\* client.detach() and the rest of collectStats: the requests are counted
\* and the results returned
CollectStatsReturns ==
    /\ collectPc = "listening"
    /\ collectPc' = "returned"
    /\ puppeteerResults' = << PuppeteerResultsOf(requests) >>
    /\ UNCHANGED <<pageUrl, requests>>
    /\ UNCHANGED <<avgVars, reportVars, statsVars, urlVars, treeVars, syncVars, storeVars, domainsVars>>

CollectInit ==
    /\ pageUrl \in PageUrls
    /\ requests = <<>>
    /\ collectPc = "listening"
    /\ puppeteerResults = <<>>
    /\ AvgIdle
    /\ ReportIdle
    /\ referenceData = <<>>
    /\ StatsIdle
    /\ UrlIdle
    /\ TreeIdle
    /\ SyncIdle
    /\ StoreIdle
    /\ DomainsIdle

CollectNext ==
    \/ RequestWillBeSent
    \/ ResponseReceived
    \/ LoadingFinished
    \/ LoadingFailed
    \/ CollectStatsReturns

SpecCollect == CollectInit /\ [][CollectNext]_vars

-----------------------------------------------------------------------------
(* Properties of collectStats *)

\* the requests the loop counts, and those among them it classifies blocked
CountedIds == { id \in DOMAIN requests : ~isAdGuardResource(requests[id]) }

BlockedIds ==
    { id \in CountedIds :
        isBlocked(requests[id]) \/ isBlockedByExtension(requests[id]) }

ThirdPartyIds == { id \in CountedIds : requests[id].thirdParty }

\* C25: in the results collectStats returns, blockedRequests +
\* notBlockedRequests = totalRequests, thirdPartyBlockedRequests +
\* thirdPartyNotBlockedRequests = thirdPartyRequests <= totalRequests, every
\* counted request is in exactly one of the two classes, and the values of
\* hostnames and of etldPlus1s each sum to at most notBlockedRequests (the
\* blocked requests add nothing to them)
C25_RequestCounts ==
    puppeteerResults # <<>> =>
        LET r == puppeteerResults[1].requests
        IN  /\ r.blockedRequests + r.notBlockedRequests = r.totalRequests
            /\ r.thirdPartyBlockedRequests + r.thirdPartyNotBlockedRequests
                 = r.thirdPartyRequests
            /\ r.thirdPartyRequests <= r.totalRequests
            /\ r.totalRequests = Cardinality(CountedIds)
            /\ r.blockedRequests = Cardinality(BlockedIds)
            /\ r.thirdPartyRequests = Cardinality(ThirdPartyIds)
            /\ r.thirdPartyBlockedRequests
                 = Cardinality(BlockedIds \cap ThirdPartyIds)
            /\ SumAt(r.hostnames, DOMAIN r.hostnames) <= r.notBlockedRequests
            /\ SumAt(r.etldPlus1s, DOMAIN r.etldPlus1s) <= r.notBlockedRequests
            /\ \A h \in DOMAIN r.hostnames :
                  r.hostnames[h] =
                    Cardinality({ id \in CountedIds \ BlockedIds :
                                    requests[id].requestUrl.host = h })

\* a blocked third-party request and a loaded first-party one have been counted
C25_Witness ==
    /\ puppeteerResults # <<>>
    /\ puppeteerResults[1].requests.totalRequests = 2
    /\ puppeteerResults[1].requests.blockedRequests = 1
    /\ puppeteerResults[1].requests.thirdPartyBlockedRequests = 1
    /\ puppeteerResults[1].requests.notBlockedRequests = 1
    /\ puppeteerResults[1].requests.hostnames
         = (<< "images", "mysite", "com" >> :> 1)

-----------------------------------------------------------------------------
(* storeMetrics(metrics, domain, outputFile) of MetricsCollector, on one    *)
(* output file                                                              *)

\* the most calls of storeMetrics in a behaviour
MaxCalls == 3

\* the output file: absent, empty, not JSON, or the JSON of a MetricsData
AbsentFile == [ kind |-> "absent", data |-> <<>> ]
EmptyFile == [ kind |-> "empty", data |-> <<>> ]
CorruptFile == [ kind |-> "corrupt", data |-> <<>> ]
JsonFile(data) == [ kind |-> "json", data |-> data ]

\* the domains and the metrics storeMetrics is given
StoreDomains == { "example.com", "test.com" }

StoredMetrics ==
    { Run(BaseTiming, BaseTraffic),
      Run(<< Num(100), Undefined, Num(2000), Num(500), "t3" >>, BaseTraffic) }

\* the calls of the fs API that can fail in a call of storeMetrics
StoreFaults == { "none", "ensureFile", "readFile", "writeFile" }

\* the output file before the first call
InitialFiles ==
    { AbsentFile, EmptyFile, CorruptFile, JsonFile(<<>>),
      JsonFile(<< [ domain |-> "example.com",
                    entries |-> << Run(BaseTiming, BaseTraffic) >> ] >>) }

\* existingMetricsJson[domain]
HasDomain(data, domain) == \E i \in DOMAIN data : data[i].domain = domain

\* existingMetricsJson[domain].push(metrics), or
\* existingMetricsJson[domain] = [metrics]: a new key comes last
PushMetrics(data, domain, metrics) ==
    IF HasDomain(data, domain)
    THEN [ i \in DOMAIN data |->
             IF data[i].domain = domain
             THEN [ data[i] EXCEPT !.entries = Append(@, metrics) ]
             ELSE data[i] ]
    ELSE Append(data, [ domain |-> domain, entries |-> << metrics >> ])

\* fsExtra.ensureFile(metricsFilename)
ensureFile(file) == IF file.kind = "absent" THEN EmptyFile ELSE file

\* storeMetrics(metrics, domain, outputFile) on the file, with the call of
\* the fs API that fails in it: whether it threw and the file it leaves
storeMetrics(file, metrics, domain, fault) ==
    IF fault = "ensureFile" THEN [ threw |-> TRUE, file |-> file ]
    ELSE
        LET ensured == ensureFile(file)
            \* (await fs.readFile(...).catch(() => '{}')) || '{}'
            readsEmptyObject == fault = "readFile" \/ ensured.kind = "empty"
            \* JSON.parse(existingMetrics)
            parseThrows == ~readsEmptyObject /\ ensured.kind = "corrupt"
            existingMetricsJson ==
                IF readsEmptyObject THEN <<>> ELSE ensured.data
        IN  IF parseThrows \/ fault = "writeFile"
            THEN [ threw |-> TRUE, file |-> ensured ]
            ELSE [ threw |-> FALSE,
                   file |-> JsonFile(PushMetrics(existingMetricsJson,
                                                 domain, metrics)) ]

\* await storeMetrics(metrics, domain, outputFile)
StoreMetrics ==
    /\ metricsFile # <<>>
    /\ Len(storeLog) < MaxCalls
    /\ \E metrics \in StoredMetrics, domain \in StoreDomains,
          fault \in StoreFaults :
          LET r == storeMetrics(metricsFile[1], metrics, domain, fault)
          IN  /\ metricsFile' = << r.file >>
              /\ storeLog' =
                   Append(storeLog, [ domain |-> domain, metrics |-> metrics,
                                      threw |-> r.threw ])
    /\ UNCHANGED initialFile
    /\ UNCHANGED <<avgVars, reportVars, statsVars, urlVars, treeVars, syncVars,
                   collectVars, domainsVars>>

StoreInit ==
    /\ initialFile \in { << f >> : f \in InitialFiles }
    /\ metricsFile = initialFile
    /\ storeLog = <<>>
    /\ AvgIdle
    /\ ReportIdle
    /\ referenceData = <<>>
    /\ StatsIdle
    /\ UrlIdle
    /\ TreeIdle
    /\ SyncIdle
    /\ CollectIdle
    /\ DomainsIdle

StoreNext == StoreMetrics

SpecStore == StoreInit /\ [][StoreNext]_vars

-----------------------------------------------------------------------------
(* Properties of storeMetrics *)

\* the data the calls of a log that returned leave, starting from data
RECURSIVE DataAfter(_, _)
DataAfter(data, log) ==
    IF log = <<>> THEN data
    ELSE DataAfter(IF Head(log).threw THEN data
                   ELSE PushMetrics(data, Head(log).domain, Head(log).metrics),
                   Tail(log))

\* C28: storeMetrics is append-only: whichever calls of the fs API failed,
\* an output file that held a MetricsData (or nothing) before the first call
\* holds, after any sequence of calls, that MetricsData with the metrics of
\* the calls that returned appended to their domains, in call order
C28_AppendOnly ==
    (metricsFile # <<>> /\ initialFile[1].kind # "corrupt") =>
        /\ metricsFile[1].kind \in { "absent", "empty", "json" }
        /\ metricsFile[1].data = DataAfter(initialFile[1].data, storeLog)

-----------------------------------------------------------------------------
(* processDomainsPuppeteer(options) and processDomainPuppeteer(domain,      *)
(* opts) of MetricsCollector                                                *)

\* const RUN_TIMES = 3
RUN_TIMES == 3

\* the domains file: unreadable, or its lines (domainsString.split('\n'))
UnreadableDomainsFile == [ readable |-> FALSE, lines |-> <<>> ]
DomainsFile(lines) == [ readable |-> TRUE, lines |-> lines ]

DomainsFileChoices ==
    { UnreadableDomainsFile,
      DomainsFile(<< "" >>),
      DomainsFile(<< "example.com" >>),
      DomainsFile(<< "example.com", "", "test.com", " " >>),
      DomainsFile(<< "test.com", "example.com", "test.com" >>) }

\* options.limit: not given, or a positive number
LimitChoices == { Undefined, 1, 2 }

\* domain.trim() !== ''
IsBlankLine(line) == line \in { "", " " }

\* domainsString.split('\n').filter((domain) => domain.trim() !== '')
NonBlankLines(lines) == SelectSeq(lines, LAMBDA line : ~IsBlankLine(line))

\* limit ? domains.slice(0, limit) : domains
SliceToLimit(domains, n) ==
    IF n = Undefined \/ n = 0 THEN domains
    ELSE SubSeq(domains, 1, IF n < Len(domains) THEN n ELSE Len(domains))

\* getUrlByDomain(domain) when a fetch succeeds
UrlByDomain ==
    ("example.com" :> "https://example.com/")
        @@ ("test.com" :> "https://www.test.com/")

\* what a run of collectStats returns
PuppeteerResultsOfRun(run) ==
    [ domContentLoadTimeMs |-> run.domContentLoadTimeMs,
      loadTimeMs |-> run.loadTimeMs,
      weight |-> run.weight,
      requests |-> run.requests ]

RunResultChoices ==
    { PuppeteerResultsOfRun(Run(BaseTiming, BaseTraffic)),
      PuppeteerResultsOfRun(
          Run(<< Num(100), Num(100), Num(2000), Num(500), "t3" >>,
              << Num(0), Num(1), Num(0), Num(0),
                 ("www.example.com" :> Num(1)), ("example.com" :> Num(1)) >>)) }

\* testEnvironment of the options
TestEnvironmentOption == "extension"

\* extractMetricsFromPuppeteer(puppeteerResults, url, domain, testEnv), with
\* the value of new Date().toISOString()
extractMetricsFromPuppeteer(results, url, domain, testEnv, now) ==
    [ url |-> url,
      domain |-> domain,
      domContentLoadTimeMs |-> results.domContentLoadTimeMs,
      loadTimeMs |-> results.loadTimeMs,
      weight |-> [ totalBytes |-> results.weight.totalBytes,
                   thirdPartyBytes |-> results.weight.thirdPartyBytes ],
      requests |-> results.requests,
      measureTime |-> now,
      testEnv |-> testEnv,
      method |-> "puppeteer" ]

\* puppeteerResultsArray.map(...)
MetricsArrayOf(array, url, domain) ==
    [ i \in 1..Len(array) |->
        extractMetricsFromPuppeteer(array[i], url, domain,
                                    TestEnvironmentOption, "t1") ]

\* the metrics of the first run in place of the average
MetricsOfFirstRun(array, url, domain) ==
    [ threw |-> FALSE, value |-> << MetricsArrayOf(array, url, domain)[1] >> ]

\* const averagedMetrics = this.computeAverageMetrics(metricsArray)
AveragedMetricsOf(array, url, domain) ==
    computeAverageMetrics(MetricsArrayOf(array, url, domain))

\* await this.puppeteerRunner.launchBrowser(proxyServer, withExtension): it
\* returns, or throws before puppeteer.launch has returned, or throws after
\* it (initializeExtension)
LaunchBrowser ==
    /\ domPc = "launch"
    /\ \/ browser' = "open" /\ domPc' = "read"
       \/ browser' = browser /\ domPc' = "threw"
       \/ browser' = "open" /\ domPc' = "threw"
    /\ UNCHANGED <<domainsFile, limit, domainsToProcess, attempted,
                   currentDomain, resolvedUrl, warmedUp, puppeteerResultsArray>>
    /\ UNCHANGED <<avgVars, reportVars, statsVars, urlVars, treeVars, syncVars,
                   collectVars, storeVars>>

\* fs.readFile(domainsFile), the split, the filter and the slice; a failed
\* read rejects the call
ReadDomainsFile ==
    /\ domPc = "read"
    /\ IF domainsFile[1].readable
       THEN /\ domainsToProcess' =
                 SliceToLimit(NonBlankLines(domainsFile[1].lines), limit)
            /\ domPc' = "loop"
       ELSE /\ domainsToProcess' = domainsToProcess
            /\ domPc' = "threw"
    /\ UNCHANGED <<domainsFile, limit, browser, attempted, currentDomain,
                   resolvedUrl, warmedUp, puppeteerResultsArray>>
    /\ UNCHANGED <<avgVars, reportVars, statsVars, urlVars, treeVars, syncVars,
                   collectVars, storeVars>>

\* for (const domain of domainsToProcess): processDomainPuppeteer is called
\* with the next domain
ProcessDomainPuppeteer ==
    /\ domPc = "loop"
    /\ domainsToProcess # <<>>
    /\ currentDomain' = Head(domainsToProcess)
    /\ domainsToProcess' = Tail(domainsToProcess)
    /\ attempted' = Append(attempted, Head(domainsToProcess))
    /\ resolvedUrl' = <<>>
    /\ warmedUp' = FALSE
    /\ puppeteerResultsArray' = <<>>
    /\ domPc' = "resolve"
    /\ UNCHANGED <<domainsFile, limit, browser>>
    /\ UNCHANGED <<avgVars, reportVars, statsVars, urlVars, treeVars, syncVars,
                   collectVars, storeVars>>

\* const url = await getUrlByDomain(domain); if (!url) return
GetUrlByDomain ==
    /\ domPc = "resolve"
    /\ \/ resolvedUrl' = << UrlByDomain[currentDomain] >> /\ domPc' = "warmUp"
       \/ resolvedUrl' = <<>> /\ domPc' = "loop"
    /\ UNCHANGED <<domainsFile, limit, browser, domainsToProcess, attempted,
                   currentDomain, warmedUp, puppeteerResultsArray>>
    /\ UNCHANGED <<avgVars, reportVars, statsVars, urlVars, treeVars, syncVars,
                   collectVars, storeVars>>

\* await this.puppeteerRunner.warmUp(url); what it throws is caught
WarmUp ==
    /\ domPc = "warmUp"
    /\ \/ warmedUp' = TRUE /\ domPc' = "run"
       \/ warmedUp' = FALSE /\ domPc' = "loop"
    /\ UNCHANGED <<domainsFile, limit, browser, domainsToProcess, attempted,
                   currentDomain, resolvedUrl, puppeteerResultsArray>>
    /\ UNCHANGED <<avgVars, reportVars, statsVars, urlVars, treeVars, syncVars,
                   collectVars, storeVars>>

\* one iteration of the loop of runs: await this.puppeteerRunner.run(...);
\* what it throws is caught
RunPuppeteer ==
    /\ domPc = "run"
    /\ \/ \E results \in RunResultChoices :
             /\ puppeteerResultsArray' = Append(puppeteerResultsArray, results)
             /\ domPc' = IF Len(puppeteerResultsArray) + 1 < RUN_TIMES
                         THEN "run" ELSE "store"
       \/ /\ puppeteerResultsArray' = puppeteerResultsArray
          /\ domPc' = "loop"
    /\ UNCHANGED <<domainsFile, limit, browser, domainsToProcess, attempted,
                   currentDomain, resolvedUrl, warmedUp>>
    /\ UNCHANGED <<avgVars, reportVars, statsVars, urlVars, treeVars, syncVars,
                   collectVars, storeVars>>

\* the metrics of the runs are averaged and stored; what storeMetrics throws
\* is caught
StoreAveragedMetrics ==
    /\ domPc = "store"
    /\ LET averaged ==
               AveragedMetricsOf(puppeteerResultsArray, resolvedUrl[1],
                                 currentDomain)
       IN  IF averaged.threw
           THEN UNCHANGED <<metricsFile, storeLog>>
           ELSE \E fault \in StoreFaults :
                  LET r == storeMetrics(metricsFile[1], averaged.value[1],
                                        currentDomain, fault)
                  IN  /\ metricsFile' = << r.file >>
                      /\ storeLog' =
                           Append(storeLog,
                                  [ domain |-> currentDomain,
                                    metrics |-> averaged.value[1],
                                    threw |-> r.threw,
                                    attempt |-> Len(attempted) ])
    /\ domPc' = "loop"
    /\ UNCHANGED <<initialFile, domainsFile, limit, browser, domainsToProcess,
                   attempted, currentDomain, resolvedUrl, warmedUp,
                   puppeteerResultsArray>>
    /\ UNCHANGED <<avgVars, reportVars, statsVars, urlVars, treeVars, syncVars,
                   collectVars>>

\* await this.puppeteerRunner.closeBrowser()
CloseBrowser ==
    /\ domPc = "loop"
    /\ domainsToProcess = <<>>
    /\ browser' = IF browser = "open" THEN "closed" ELSE browser
    /\ domPc' = "done"
    /\ UNCHANGED <<domainsFile, limit, domainsToProcess, attempted,
                   currentDomain, resolvedUrl, warmedUp, puppeteerResultsArray>>
    /\ UNCHANGED <<avgVars, reportVars, statsVars, urlVars, treeVars, syncVars,
                   collectVars, storeVars>>

DomainsInit ==
    /\ domainsFile \in { << f >> : f \in DomainsFileChoices }
    /\ limit \in LimitChoices
    /\ browser = "none"
    /\ domPc = "launch"
    /\ domainsToProcess = <<>>
    /\ attempted = <<>>
    /\ currentDomain = ""
    /\ resolvedUrl = <<>>
    /\ warmedUp = FALSE
    /\ puppeteerResultsArray = <<>>
    /\ initialFile \in { << AbsentFile >>,
                         << JsonFile(<< [ domain |-> "example.com",
                                          entries |-> << Run(BaseTiming, BaseTraffic) >> ] >>) >> }
    /\ metricsFile = initialFile
    /\ storeLog = <<>>
    /\ AvgIdle
    /\ ReportIdle
    /\ referenceData = <<>>
    /\ StatsIdle
    /\ UrlIdle
    /\ TreeIdle
    /\ SyncIdle
    /\ CollectIdle

DomainsNext ==
    \/ LaunchBrowser
    \/ ReadDomainsFile
    \/ ProcessDomainPuppeteer
    \/ GetUrlByDomain
    \/ WarmUp
    \/ RunPuppeteer
    \/ StoreAveragedMetrics
    \/ CloseBrowser

SpecDomains == DomainsInit /\ [][DomainsNext]_vars

-----------------------------------------------------------------------------
(* Properties of processDomainPuppeteer and processDomainsPuppeteer *)

\* the number of records the output file holds
RECURSIVE RecordCount(_)
RecordCount(data) ==
    IF data = <<>> THEN 0 ELSE Len(Head(data).entries) + RecordCount(Tail(data))

\* the average of the runs of the current domain
AverageOfTheRuns ==
    computeAverageMetrics(
        [ i \in 1..Len(puppeteerResultsArray) |->
            extractMetricsFromPuppeteer(puppeteerResultsArray[i], resolvedUrl[1],
                                        currentDomain, TestEnvironmentOption,
                                        "t1") ]).value[1]

\* C29: processDomainPuppeteer calls storeMetrics at most once for a domain
\* it is given, only when getUrlByDomain returned a URL, warmUp returned and
\* RUN_TIMES = 3 runs returned, and with the average of these 3 runs; the
\* output file changes in no other step, and no step of it makes
\* processDomainsPuppeteer throw (it throws only before the first domain)
C29_OneAveragedRecordPerDomain ==
    /\ [][storeLog' # storeLog =>
            /\ resolvedUrl # <<>>
            /\ warmedUp
            /\ Len(puppeteerResultsArray) = RUN_TIMES
            /\ Len(storeLog') = Len(storeLog) + 1
            /\ SubSeq(storeLog', 1, Len(storeLog)) = storeLog
            /\ storeLog'[Len(storeLog')].domain = currentDomain
            /\ storeLog'[Len(storeLog')].metrics = AverageOfTheRuns
            /\ storeLog'[Len(storeLog')].attempt = Len(attempted)
            /\ RecordCount(metricsFile'[1].data) <= RecordCount(metricsFile[1].data) + 1]_vars
    /\ [][metricsFile' # metricsFile => storeLog' # storeLog]_vars
    /\ [](\A i, j \in DOMAIN storeLog :
             storeLog[i].attempt = storeLog[j].attempt => i = j)
    /\ [](domPc = "threw" => attempted = <<>>)

\* three runs that differ have been averaged and the average stored
C29_Witness ==
    /\ domPc = "loop"
    /\ Len(puppeteerResultsArray) = RUN_TIMES
    /\ puppeteerResultsArray[1] # puppeteerResultsArray[2]
    /\ Len(storeLog) = 1
    /\ ~storeLog[1].threw
    /\ storeLog[1].metrics.loadTimeMs \notin
         { puppeteerResultsArray[i].loadTimeMs : i \in 1..RUN_TIMES }
    /\ metricsFile[1].kind = "json"
    /\ \E i \in DOMAIN metricsFile[1].data :
          /\ metricsFile[1].data[i].domain = currentDomain
          /\ metricsFile[1].data[i].entries[Len(metricsFile[1].data[i].entries)]
               = storeLog[1].metrics

\* the non-blank lines of the domains file, the first `limit` of them when a
\* limit is given
SelectedDomains ==
    LET nonBlank == SelectSeq(domainsFile[1].lines,
                              LAMBDA line : line \notin { "", " " })
    IN  IF limit = Undefined \/ limit >= Len(nonBlank) THEN nonBlank
        ELSE SubSeq(nonBlank, 1, limit)

\* C30: once processDomainsPuppeteer has launched the browser, the domains
\* attempted so far are the first of the selected domains, in file order,
\* and when the operation has ended (returned or thrown) every selected
\* domain has been attempted exactly once and the browser is closed
C30_AllAttemptedAndBrowserClosed ==
    browser # "none" =>
        /\ Len(attempted) <= Len(SelectedDomains)
        /\ attempted = SubSeq(SelectedDomains, 1, Len(attempted))
        /\ domPc \in { "done", "threw" } =>
              /\ browser = "closed"
              /\ attempted = SelectedDomains

-----------------------------------------------------------------------------
(* Properties of the hostname tallies and of the reach maps of              *)
(* computeStatistics                                                        *)

\* the hostname keys of an entry, and its etldPlus1s keys
HostnameKeys(entry) == DOMAIN entry.requests.hostnames

EtldPlus1Keys(entry) == DOMAIN entry.requests.etldPlus1s

\* C26: totalHostnames is the sum over every entry of every domain of the
\* number of hostname keys of the entry, and totalEtldPlus1s the same sum
\* for the etldPlus1s keys: a name is counted once per entry that has it,
\* whether or not it resolves to a tracker, a company or a registrable domain
C26_RawTallies ==
    statsResult # <<>> =>
        LET es == AllEntries(statsData)
        IN  /\ statsResult[1].totalHostnames =
                 SeqSum([ i \in 1..Len(es) |-> Cardinality(HostnameKeys(es[i])) ])
            /\ statsResult[1].totalEtldPlus1s =
                 SeqSum([ i \in 1..Len(es) |-> Cardinality(EtldPlus1Keys(es[i])) ])

\* two domains that both contacted old.analytics.com and the IP address
\* 10.0.0.1, which has no registrable domain: 2 + 2 hostnames, 1 + 1 eTLD+1s
C26_Witness ==
    /\ statsResult # <<>>
    /\ Len(statsData) = 2
    /\ statsData[1].entries = << LocalEntry(statsData[1].domain) >>
    /\ statsData[2].entries = << LocalEntry(statsData[2].domain) >>
    /\ statsResult[1].totalHostnames = 4
    /\ statsResult[1].totalEtldPlus1s = 2

\* the domains of the data that have an entry with a hostname
DomainsWithHostnames ==
    { i \in 1..Len(statsData) :
        \E j \in 1..Len(statsData[i].entries) :
            HostnameKeys(statsData[i].entries[j]) # {} }

\* every value of a reach map is a whole number of domains, at least 1 and
\* at most the number of domains that contacted anything
IsReachMap(map, siteCount) ==
    \A name \in DOMAIN map :
        /\ map[name] \in 1..siteCount
        /\ map[name] <= Cardinality(DomainsWithHostnames)

\* C27: every value of etldPlus1WebsitesData, trackersWebsitesData and
\* companiesWebsitesData is an integer between 1 and siteCount: no entity has
\* reach 0 and no domain is counted twice for an entity, whatever the number
\* of its entries and of its hostnames mapping to the entity
C27_ReachWithinSiteCount ==
    statsResult # <<>> =>
        /\ statsResult[1].siteCount = Len(statsData)
        /\ IsReachMap(statsResult[1].etldPlus1WebsitesData, statsResult[1].siteCount)
        /\ IsReachMap(statsResult[1].trackersWebsitesData, statsResult[1].siteCount)
        /\ IsReachMap(statsResult[1].companiesWebsitesData, statsResult[1].siteCount)

\* one domain with two entries and three hostnames under analytics.com: the
\* reach of analytics.com and of its tracker is 1
C27_Witness ==
    /\ statsResult # <<>>
    /\ Len(statsData) = 1
    /\ statsData[1].entries = << ShopEntry(statsData[1].domain),
                                 AveragedEntry(statsData[1].domain) >>
    /\ statsResult[1].siteCount = 1
    /\ statsResult[1].etldPlus1WebsitesData["analytics.com"] = 1
    /\ statsResult[1].trackersWebsitesData # EmptyMap
    /\ \A name \in DOMAIN statsResult[1].trackersWebsitesData :
          statsResult[1].trackersWebsitesData[name] = 1

====
